---- MODULE Spec2Model ----
(***************************************************************************)
(* Verification model of the P&L / Balance dashboard core:                 *)
(*   utils/kpi_extractor.py   KPIExtractor                                 *)
(*   config/kpi_mappings.py   KPI_MAPPINGS, match_pattern                  *)
(*   utils/data_loader.py     DataLoader                                   *)
(*   utils/balance_loader.py  BalanceLoader, BalanceKPIExtractor,          *)
(*                            calculate_financial_ratios                   *)
(*   app.py                   main                                         *)
(*   components/sidebar.py    render_sidebar                               *)
(*                                                                         *)
(* The specifications share the variables: SpecExtractor (extract_all on   *)
(* one KPIExtractor instance), SpecDetail (extract_detailed_data on one    *)
(* KPIExtractor instance), SpecLoader (one DataLoader instance),           *)
(* SpecReload (one DataLoader instance loading a second file), SpecBalance *)
(* (extract_all on one BalanceKPIExtractor instance), SpecRatios (one call *)
(* of calculate_financial_ratios) and SpecApp (the runs of main over the   *)
(* uploaded files).                                                        *)
(***************************************************************************)
EXTENDS Integers, Sequences, FiniteSets, TLC

VARIABLES
    x_df,        \* KPIExtractor.df
    x_years,     \* KPIExtractor.years
    kpis,        \* KPIExtractor.kpis
    not_found,   \* KPIExtractor._not_found
    found,       \* KPIExtractor._found
    x_calls,     \* number of extract_all() calls made on the instance
    l_raw,       \* DataLoader._raw_df
    l_df,        \* DataLoader.df
    l_years,     \* DataLoader.years
    l_result,    \* how load() ended: "none" before the call, "ok", or the exception
    r_balance,   \* calculate_financial_ratios: argument balance_kpis
    r_pyg,       \* calculate_financial_ratios: argument pyg_kpis
    r_years,     \* calculate_financial_ratios: argument years
    ratios,      \* calculate_financial_ratios: the returned dict
    r_done,      \* the call has returned
    servicios,           \* extract_detailed_data(): the servicios map
    aprovisionamientos,  \* extract_detailed_data(): the aprovisionamientos map
    personal,            \* extract_detailed_data(): the personal map
    otros_gastos,        \* extract_detailed_data(): the otros_gastos map
    d_done,              \* extract_detailed_data() has returned
    a_pc,             \* main(): the step the current run is at
    a_runs,           \* main(): number of runs started
    a_session,        \* st.session_state['has_balance']
    a_has_balance,    \* main(): local has_balance
    a_pyg_file,       \* main(): pyg_file returned by render_sidebar
    a_balance_file,   \* main(): balance_file returned by render_sidebar
    a_section,        \* main(): section returned by render_sidebar
    a_balance_kpis,   \* main(): local balance_kpis, [some |-> FALSE] for None
    a_activo_detalle, \* main(): local activo_detalle
    a_pasivo_detalle, \* main(): local pasivo_detalle
    a_log,            \* what the current run has displayed, in order
    a_prev,           \* the P&L file and P&L outputs of the latest earlier run that extracted
    l_prev,      \* DataLoader: df and years as they were before the latest load() of a loaded instance
    b_df,        \* BalanceKPIExtractor.df
    b_years,     \* BalanceKPIExtractor.years
    b_kpis,      \* BalanceKPIExtractor.extract_all(): the dict built
    b_raised,    \* BalanceKPIExtractor.extract_all() raised
    b_done       \* BalanceKPIExtractor.extract_all() has ended

xvars == <<x_df, x_years, kpis, not_found, found, x_calls>>
lvars == <<l_raw, l_df, l_years, l_result, l_prev>>
rvars == <<r_balance, r_pyg, r_years, ratios, r_done>>
dvars == <<servicios, aprovisionamientos, personal, otros_gastos, d_done>>
avars == <<a_pc, a_runs, a_session, a_has_balance, a_pyg_file, a_balance_file,
           a_section, a_balance_kpis, a_activo_detalle, a_pasivo_detalle, a_log,
           a_prev>>
bvars == <<b_df, b_years, b_kpis, b_raised, b_done>>
vars  == <<xvars, lvars, rvars, dvars, avars, bvars>>

(***************************************************************************)
(* Bounds                                                                  *)
(***************************************************************************)
MaxRows  == 2    \* rows of a grid handed to KPIExtractor
MaxDRows == 4    \* rows of a grid handed to extract_detailed_data()
MaxCalls == 2    \* extract_all() calls on one instance
MaxRuns  == 2    \* runs of main() in one session
MaxBRows == 4    \* rows of a grid handed to BalanceKPIExtractor
MaxLead  == 2    \* leading columns of a raw grid that vary in kind
MaxCols  == 11   \* columns of a raw grid
MaxLRows == 6    \* rows of the longest raw grid
MaxPresent == 3  \* concepts present in the KPI maps given to the ratio calculator
MaxAmount  == 1  \* amounts of those concepts lie in -MaxAmount..MaxAmount

(***************************************************************************)
(* Generic helpers                                                         *)
(***************************************************************************)
Range(s) == {s[i] : i \in 1..Len(s)}

Abs(n) == IF n < 0 THEN -n ELSE n

SeqsUpTo(S, n) == UNION {[1..k -> S] : k \in 0..n}

\* m with key k (re)bound to v: the dict assignment m[k] = v
DictSet(m, k, v) == [x \in (DOMAIN m) \cup {k} |-> IF x = k THEN v ELSE m[x]]

EmptyDict == [x \in {} |-> 0]

(***************************************************************************)
(* Cells.  A text cell is the sequence of its whitespace-separated words,  *)
(* a numeric cell an integer, an empty cell NaN.                           *)
(***************************************************************************)
Txt(w) == [k |-> "txt", n |-> 0, w |-> w]
Num(n) == [k |-> "num", n |-> n, w |-> <<>>]
NaN    == [k |-> "nan", n |-> 0, w |-> <<>>]

\* str(cell): the text the extractor searches
Str(c) == CASE c.k = "txt" -> c.w
            [] c.k = "num" -> <<"#num">>
            [] OTHER       -> <<"nan">>

\* str.lower() on the words this model uses in upper case
LowerWord(w) == CASE w = "VENTAS" -> "ventas"
                  [] w = "NETAS"  -> "netas"
                  [] w = "Ventas" -> "ventas"
                  [] w = "PRESTACIONES" -> "prestaciones"
                  [] w = "DE" -> "de"
                  [] w = "SERVICIOS" -> "servicios"
                  [] w = "Variación" -> "variación"
                  [] w = "SUELDOS" -> "sueldos"
                  [] w = "REPARACIONES" -> "reparaciones"
                  [] w = "SEGURIDAD" -> "seguridad"
                  [] w = "SOCIAL" -> "social"
                  [] OTHER        -> w

Lower(t) == [i \in 1..Len(t) |-> LowerWord(t[i])]

\* re.search of one alternative: the words of p occur contiguously in t
Occurs(p, t) ==
    \E i \in 0..(Len(t) - Len(p)) : SubSeq(t, i + 1, i + Len(p)) = p

\* re.search(pattern, text): a pattern is the set of its word-level readings
ReSearch(pattern, t) == \E p \in pattern : Occurs(p, t)

(***************************************************************************)
(* config/kpi_mappings.py                                                  *)
(***************************************************************************)
\* One entry per regular expression of the registry, in source order.  A
\* regular expression is written as the set of word sequences it matches:
\* an optional numeric/letter prefix gives the readings with and without
\* it, [oó] gives both spellings.
KPI_MAPPINGS == <<
    [name |-> "ingresos", sign |-> 1, required |-> TRUE, default |-> 0,
     patterns |-> <<
        {<<"1.", "importe", "neto", "de", "la", "cifra", "de", "negocios">>,
         <<"1", "importe", "neto", "de", "la", "cifra", "de", "negocios">>},
        {<<"importe", "neto", "cifra", "negocios">>},
        {<<"cifra", "de", "negocios">>},
        {<<"ventas", "netas">>},
        {<<"ingresos", "netos">>} >>],
    [name |-> "aprovisionamientos", sign |-> -1, required |-> TRUE, default |-> 0,
     patterns |-> <<
        {<<"4.", "aprovisionamientos">>, <<"4", "aprovisionamientos">>},
        {<<"aprovisionamientos">>},
        {<<"compras", "de", "mercaderias">>, <<"compras", "de", "mercaderías">>} >>],
    [name |-> "gastos_personal", sign |-> -1, required |-> TRUE, default |-> 0,
     patterns |-> <<
        {<<"6.", "gastos", "de", "personal">>, <<"6", "gastos", "de", "personal">>},
        {<<"gastos", "personal">>},
        {<<"gastos", "de", "personal">>} >>],
    [name |-> "otros_gastos", sign |-> -1, required |-> TRUE, default |-> 0,
     patterns |-> <<
        {<<"7.", "otros", "gastos", "de", "explotacion">>,
         <<"7.", "otros", "gastos", "de", "explotación">>},
        {<<"otros", "gastos", "explotacion">>, <<"otros", "gastos", "explotación">>},
        {<<"otros", "gastos", "de", "explotacion">>,
         <<"otros", "gastos", "de", "explotación">>} >>],
    [name |-> "amortizacion", sign |-> -1, required |-> TRUE, default |-> 0,
     patterns |-> <<
        {<<"8.", "amortizacion", "del", "inmovilizado">>,
         <<"8.", "amortización", "del", "inmovilizado">>},
        {<<"amortizacion", "inmovilizado">>, <<"amortización", "inmovilizado">>},
        {<<"amortizacion">>, <<"amortización">>} >>],
    [name |-> "ebitda", sign |-> 1, required |-> TRUE, default |-> 0,
     patterns |-> <<
        {<<"a)", "resultado", "de", "explotacion">>},
        {<<"a)", "resultado", "de", "explotacion">>,
         <<"a)", "resultado", "de", "explotación">>},
        {<<"17.", "resultado", "de", "explotacion">>,
         <<"17.", "resultado", "de", "explotación">>},
        {<<"resultado", "de", "explotacion">>},
        {<<"resultado", "de", "explotacion">>, <<"resultado", "de", "explotación">>},
        {<<"resultado", "explotacion">>, <<"resultado", "explotación">>},
        {<<"ebitda">>},
        {<<"ebit">>},
        {<<"beneficio", "operativo">>} >>],
    [name |-> "resultado_financiero", sign |-> 1, required |-> FALSE, default |-> 0,
     patterns |-> <<
        {<<"b)", "resultado", "financiero">>},
        {<<"resultado", "financiero">>} >>],
    [name |-> "resultado_neto", sign |-> 1, required |-> TRUE, default |-> 0,
     patterns |-> <<
        {<<"d)", "resultado", "del", "ejercicio">>},
        {<<"17.", "resultado", "del", "ejercicio">>},
        {<<"resultado", "del", "ejercicio">>},
        {<<"beneficio", "neto">>},
        {<<"resultado", "neto">>},
        {<<"beneficio", "/", "perdida", "del", "ejercicio">>,
         <<"beneficio", "/", "pérdida", "del", "ejercicio">>},
        {<<"resultado", "despues", "de", "impuestos">>,
         <<"resultado", "después", "de", "impuestos">>} >>],
    [name |-> "otros_ingresos", sign |-> 1, required |-> FALSE, default |-> 0,
     patterns |-> <<
        {<<"5.", "otros", "ingresos", "de", "explotacion">>,
         <<"5.", "otros", "ingresos", "de", "explotación">>},
        {<<"otros", "ingresos", "explotacion">>, <<"otros", "ingresos", "explotación">>},
        {<<"otros", "ingresos">>} >>],
    [name |-> "gastos_financieros", sign |-> -1, required |-> FALSE, default |-> 0,
     patterns |-> <<
        {<<"14.", "gastos", "financieros">>, <<"14", "gastos", "financieros">>},
        {<<"gastos", "financieros">>} >>]
>>

ConceptNames == {KPI_MAPPINGS[i].name : i \in 1..Len(KPI_MAPPINGS)}

Config(name) == CHOOSE c \in Range(KPI_MAPPINGS) : c.name = name

\* lines 155-158: the loop over the patterns
AnyPattern(text_lower, patterns) ==
    \E i \in 1..Len(patterns) : ReSearch(patterns[i], text_lower)

\* match_pattern(text, patterns)
match_pattern(text, patterns) == AnyPattern(Lower(text), patterns)

\* the least element of a set of positive integers, 0 for the empty set
FirstOrZero(Q) == IF Q = {} THEN 0 ELSE CHOOSE i \in Q : \A j \in Q : i <= j

(***************************************************************************)
(* utils/kpi_extractor.py : KPIExtractor                                   *)
(* A grid is [cols |-> sequence of column names, rows |-> sequence of      *)
(* rows], a row a function from the column names to cells.                 *)
(***************************************************************************)

\* _find_kpi, lines 76-83: some non-year cell of the row matches a pattern
RowFound(row, cols, years, patterns) ==
    \E i \in 1..Len(cols) :
        /\ cols[i] \notin Range(years)
        /\ Str(row[cols[i]]) # <<>>
        /\ match_pattern(Str(row[cols[i]]), patterns)

\* variant of MatchedRow: the scan does not stop, the last matching row is kept
MatchedRow_Last(df, years, patterns) ==
    LET M == {i \in 1..Len(df.rows) : RowFound(df.rows[i], df.cols, years, patterns)}
    IN  IF M = {} THEN 0
        ELSE CHOOSE i \in M : \A j \in M : i >= j

\* _find_kpi, line 74 with the return of line 99: index of the row the scan
\* stops at, 0 when the loop runs to its end
MatchedRow(df, years, patterns) ==
    LET M == {i \in 1..Len(df.rows) : RowFound(df.rows[i], df.cols, years, patterns)}
    IN  IF M = {} THEN 0
        ELSE CHOOSE i \in M : \A j \in M : i <= j

\* variant of StoredValue: sign = -1 flips the sign instead of taking abs()
StoredValue_Flip(cell, sign) ==
    LET value == IF cell.k = "nan" THEN 0 ELSE cell.n
    IN  IF sign = -1 THEN -value ELSE value

\* _find_kpi, lines 89-94: the value stored for one year cell
StoredValue(cell, sign) ==
    LET value == IF cell.k = "nan" THEN 0 ELSE cell.n
    IN  IF sign = -1 THEN Abs(value) ELSE value

\* variant of RowValues: a year without a column in the row is left out
RowValues_SkipAbsent(row, cols, years, sign) ==
    [y \in Range(years) \cap Range(cols) |-> StoredValue(row[y], sign)]

\* _find_kpi, lines 86-96: the result dict built from the matched row
RowValues(row, cols, years, sign) ==
    [y \in Range(years) |->
        IF y \in Range(cols) THEN StoredValue(row[y], sign) ELSE 0]

\* _find_kpi: [some |-> FALSE] stands for None
_find_kpi(df, years, config) ==
    LET i == MatchedRow(df, years, config.patterns)
    IN  IF i = 0 THEN [some |-> FALSE, val |-> EmptyDict]
        ELSE [some |-> TRUE,
              val  |-> RowValues(df.rows[i], df.cols, years, config.sign)]

\* variant of ExtractOne: a missing required concept is zero-filled as well
ExtractOne_FillRequired(st, config, df, years) ==
    LET value == _find_kpi(df, years, config)
    IN  IF value.some
        THEN [st EXCEPT !.kpis  = DictSet(@, config.name, value.val),
                        !.found = Append(@, config.name)]
        ELSE [st EXCEPT !.not_found = IF config.required
                                      THEN Append(@, config.name) ELSE @,
                        !.kpis = DictSet(@, config.name,
                                     [y \in Range(years) |-> config.default])]

\* variant of ExtractOne: every concept without a row is reported missing
ExtractOne_AllMissing(st, config, df, years) ==
    LET value == _find_kpi(df, years, config)
    IN  IF value.some
        THEN [st EXCEPT !.kpis  = DictSet(@, config.name, value.val),
                        !.found = Append(@, config.name)]
        ELSE [st EXCEPT !.not_found = Append(@, config.name)]

\* variant of ExtractOne: the loop does nothing more once a required concept
\* is missing
ExtractOne_StopAtMissing(st, config, df, years) ==
    LET value == _find_kpi(df, years, config)
    IN  IF st.not_found # <<>> THEN st
        ELSE IF value.some
        THEN [st EXCEPT !.kpis  = DictSet(@, config.name, value.val),
                        !.found = Append(@, config.name)]
        ELSE IF config.required
        THEN [st EXCEPT !.not_found = Append(@, config.name)]
        ELSE [st EXCEPT !.kpis =
                 DictSet(@, config.name, [y \in Range(years) |-> config.default])]

\* extract_all, lines 43-53: the body of the loop for one concept;
\* st = [kpis, found, not_found]
ExtractOne(st, config, df, years) ==
    LET value == _find_kpi(df, years, config)
    IN  IF value.some
        THEN [st EXCEPT !.kpis  = DictSet(@, config.name, value.val),
                        !.found = Append(@, config.name)]
        ELSE IF config.required
        THEN [st EXCEPT !.not_found = Append(@, config.name)]
        ELSE [st EXCEPT !.kpis =
                 DictSet(@, config.name, [y \in Range(years) |-> config.default])]

RECURSIVE ExtractFrom(_, _, _, _)
ExtractFrom(i, st, df, years) ==
    IF i > Len(KPI_MAPPINGS) THEN st
    ELSE ExtractFrom(i + 1, ExtractOne(st, KPI_MAPPINGS[i], df, years), df, years)

\* extract_all, lines 42-58
extract_all(st, df, years) == ExtractFrom(1, st, df, years)

(***************************************************************************)
\* get_missing_kpis, lines 215-217, and get_found_kpis, lines 219-221
get_missing_kpis(st) == st.not_found

get_found_kpis(st) == st.found

(***************************************************************************)

(* config/kpi_mappings.py : DETAILED_MAPPINGS                              *)
(* The patterns searched with re.IGNORECASE are written in lower case and  *)
(* compared with the lowered text; an item pattern, which re.match anchors *)
(* at the start of the text, is the literal prefix it stands for.          *)
(***************************************************************************)
DETAILED_MAPPINGS ==
    [servicios |->
        [parent_pattern |-> {<<"705", "prestaciones", "de", "servicios">>},
         item_pattern   |-> "705.0.0.",
         stop_pattern   |-> {<<"2.", "variación">>, <<"2.", "variacion">>,
                             <<"2.variación">>, <<"2.variacion">>}],
     aprovisionamientos_detalle |-> [item_pattern |-> "602.0.0."],
     personal_detalle |->
        [categories |-> <<
            <<{<<"640", "sueldos">>}, "Sueldos y Salarios">>,
            <<{<<"642", "seguridad", "social">>}, "Seguridad Social">>,
            <<{<<"641", "indemnizaciones">>}, "Indemnizaciones">> >>],
     otros_gastos_detalle |->
        [categories |-> <<
            <<{<<"622", "reparaciones">>}, "Reparaciones y Mantenimiento">>,
            <<{<<"623", "servicios", "de", "profesionales">>}, "Servicios Profesionales">>,
            <<{<<"625", "primas", "de", "seguros">>}, "Seguros">>,
            <<{<<"627", "publicidad">>}, "Publicidad y Marketing">>,
            <<{<<"628", "suministros">>}, "Suministros">>,
            <<{<<"629", "otros", "servicios">>}, "Otros Servicios">>,
            <<{<<"631", "otros", "tributos">>}, "Tributos">> >>]]

(***************************************************************************)
(* utils/kpi_extractor.py : extract_detailed_data                          *)
(***************************************************************************)
\* the account-code words of this model: the item prefix a word starts with
\* ("" when it starts with none) and what follows the prefix
PrefixOf(w) == CASE w \in {"705.0.0.1", "705.0.0.2"} -> "705.0.0."
                 [] w = "602.0.0.1" -> "602.0.0."
                 [] OTHER -> ""

AfterPrefix(w) == CASE w = "705.0.0.1" -> "1"
                    [] w = "705.0.0.2" -> "2"
                    [] w = "602.0.0.1" -> "1"
                    [] OTHER -> w

\* re.match(item_pattern, concepto)
ReMatch(item_pattern, concepto) ==
    concepto # <<>> /\ PrefixOf(concepto[1]) = item_pattern

\* re.search(pattern, concepto, re.IGNORECASE)
ReSearchI(pattern, concepto) == ReSearch(pattern, Lower(concepto))

\* str(row.get('Concepto', '')), lines 130, 160, 182, 202
Concepto(row, cols) ==
    IF "Concepto" \in Range(cols) THEN Str(row["Concepto"]) ELSE <<>>

\* lines 143-145 on the words left after re.sub: the text after the first
\* blank when there is one
AfterFirstBlank(tokens) == IF Len(tokens) > 1 THEN Tail(tokens) ELSE tokens

\* lines 143-145: the display name of an item row
Nombre(concepto) ==
    AfterFirstBlank((IF AfterPrefix(concepto[1]) = "" THEN <<>>
                     ELSE <<AfterPrefix(concepto[1])>>) \o Tail(concepto))

\* lines 147-149: {year: row.get(year, 0)}, the cells as they are
RawYearValues(row, cols, years) ==
    [y \in Range(years) |-> IF y \in Range(cols) THEN row[y] ELSE Num(0)]

\* abs(v) of a cell value: abs(NaN) is NaN
AbsCell(c) == IF c.k = "num" THEN Num(Abs(c.n)) ELSE c

\* lines 169-171, 187-189, 207-209: {year: abs(row.get(year, 0))}
AbsYearValues(row, cols, years) ==
    [y \in Range(years) |-> IF y \in Range(cols) THEN AbsCell(row[y]) ELSE Num(0)]

\* variant of ServiciosRow: the stop pattern is ignored
ServiciosRow_NoStop(st, concepto, values) ==
    IF concepto = <<>> THEN st
    ELSE IF ReSearchI(DETAILED_MAPPINGS.servicios.parent_pattern, concepto)
         THEN [st EXCEPT !.in_servicios = TRUE]
    ELSE IF ~st.in_servicios THEN st
    ELSE IF ReMatch(DETAILED_MAPPINGS.servicios.item_pattern, concepto)
         THEN [st EXCEPT !.servicios = DictSet(@, Nombre(concepto), values)]
    ELSE st

\* _extract_servicios, lines 129-149: the body of the loop for one row;
\* st = [in_servicios, servicios]
ServiciosRow(st, concepto, values) ==
    IF concepto = <<>> THEN st
    ELSE IF ReSearchI(DETAILED_MAPPINGS.servicios.parent_pattern, concepto)
         THEN [st EXCEPT !.in_servicios = TRUE]
    ELSE IF ~st.in_servicios THEN st
    ELSE IF ReSearchI(DETAILED_MAPPINGS.servicios.stop_pattern, concepto)
         THEN [st EXCEPT !.in_servicios = FALSE]
    ELSE IF ReMatch(DETAILED_MAPPINGS.servicios.item_pattern, concepto)
         THEN [st EXCEPT !.servicios = DictSet(@, Nombre(concepto), values)]
    ELSE st

RECURSIVE ServiciosFrom(_, _, _, _)
ServiciosFrom(i, st, df, years) ==
    IF i > Len(df.rows) THEN st
    ELSE ServiciosFrom(i + 1,
             ServiciosRow(st, Concepto(df.rows[i], df.cols),
                          RawYearValues(df.rows[i], df.cols, years)),
             df, years)

\* _extract_servicios, lines 117-151
_extract_servicios(df, years) ==
    ServiciosFrom(1, [in_servicios |-> FALSE, servicios |-> EmptyDict], df, years).servicios

\* _extract_aprovisionamientos, lines 159-171: the body of the loop
AprovisionamientosRow(m, concepto, values) ==
    IF concepto # <<>>
       /\ ReMatch(DETAILED_MAPPINGS.aprovisionamientos_detalle.item_pattern, concepto)
    THEN DictSet(m, Nombre(concepto), values)
    ELSE m

RECURSIVE AprovisionamientosFrom(_, _, _, _)
AprovisionamientosFrom(i, m, df, years) ==
    IF i > Len(df.rows) THEN m
    ELSE AprovisionamientosFrom(i + 1,
             AprovisionamientosRow(m, Concepto(df.rows[i], df.cols),
                                   AbsYearValues(df.rows[i], df.cols, years)),
             df, years)

\* _extract_aprovisionamientos, lines 153-173
_extract_aprovisionamientos(df, years) ==
    AprovisionamientosFrom(1, EmptyDict, df, years)

\* variant of FirstCategory: the last category whose pattern matches
FirstCategory_Last(categories, concepto) ==
    LET M == {k \in 1..Len(categories) : ReSearchI(categories[k][1], concepto)}
    IN  IF M = {} THEN 0 ELSE CHOOSE k \in M : \A j \in M : j <= k

\* lines 186-191, 206-211: index of the first category whose pattern matches,
\* 0 when none does
FirstCategory(categories, concepto) ==
    FirstOrZero({k \in 1..Len(categories) : ReSearchI(categories[k][1], concepto)})

\* lines 181-191, 201-211: the body of the loop of a category list
CategoryRow(m, categories, concepto, k, values) ==
    IF concepto = <<>> \/ k = 0 THEN m
    ELSE DictSet(m, categories[k][2], values)

RECURSIVE CategoriesFrom(_, _, _, _, _)
CategoriesFrom(i, m, categories, df, years) ==
    IF i > Len(df.rows) THEN m
    ELSE CategoriesFrom(i + 1,
             CategoryRow(m, categories, Concepto(df.rows[i], df.cols),
                         FirstCategory(categories, Concepto(df.rows[i], df.cols)),
                         AbsYearValues(df.rows[i], df.cols, years)),
             categories, df, years)

\* _extract_personal, lines 175-193
_extract_personal(df, years) ==
    CategoriesFrom(1, EmptyDict, DETAILED_MAPPINGS.personal_detalle.categories, df, years)

\* _extract_otros_gastos, lines 195-213
_extract_otros_gastos(df, years) ==
    CategoriesFrom(1, EmptyDict, DETAILED_MAPPINGS.otros_gastos_detalle.categories,
                   df, years)

\* extract_detailed_data, lines 102-115
extract_detailed_data(df, years) ==
    [servicios          |-> _extract_servicios(df, years),
     aprovisionamientos |-> _extract_aprovisionamientos(df, years),
     personal           |-> _extract_personal(df, years),
     otros_gastos       |-> _extract_otros_gastos(df, years)]

(***************************************************************************)
(* utils/data_loader.py : DataLoader                                       *)
(* In the loader a string is the sequence of its characters.  A raw grid   *)
(* is column-major: hdrs[i] is the header of column i, data[i] the         *)
(* sequence of its cells, n the number of rows.  Columns are numbered      *)
(* from 1 (the code numbers them from 0).                                  *)
(***************************************************************************)
LStr(s) == [k |-> "str", n |-> 0, s |-> s]
LNum(n) == [k |-> "num", n |-> n, s |-> <<>>]
LNaN    == [k |-> "nan", n |-> 0, s |-> <<>>]

Digits == <<"0", "1", "2", "3", "4", "5", "6", "7", "8", "9">>

IsDigit(ch) == ch \in Range(Digits)

DigitVal(ch) == (CHOOSE i \in 1..10 : Digits[i] = ch) - 1

\* str(n) for an integer n >= 0
RECURSIVE DigitsOf(_)
DigitsOf(n) == IF n < 10 THEN <<Digits[n + 1]>>
               ELSE Append(DigitsOf(n \div 10), Digits[(n % 10) + 1])

\* str(value) of a header or cell
StrOf(c) == CASE c.k = "str" -> c.s
              [] c.k = "num" -> IF c.n < 0 THEN <<"-">> \o DigitsOf(-c.n)
                                ELSE DigitsOf(c.n)
              [] OTHER       -> <<"n", "a", "n">>

\* str.strip()
RECURSIVE LStrip(_)
LStrip(s) == IF s # <<>> /\ Head(s) = " " THEN LStrip(Tail(s)) ELSE s

RECURSIVE RStrip(_)
RStrip(s) == IF s # <<>> /\ s[Len(s)] = " " THEN RStrip(SubSeq(s, 1, Len(s) - 1))
             ELSE s

Strip(s) == RStrip(LStrip(s))

\* line 73: re.compile(r'^(20\d{2}|19\d{2})$').match
year_pattern(s) ==
    /\ Len(s) = 4
    /\ <<s[1], s[2]>> \in {<<"2", "0">>, <<"1", "9">>}
    /\ IsDigit(s[3])
    /\ IsDigit(s[4])

\* the value of a string of decimal digits
RECURSIVE NumberOf(_)
NumberOf(s) == IF s = <<>> THEN 0
               ELSE 10 * NumberOf(SubSeq(s, 1, Len(s) - 1)) + DigitVal(s[Len(s)])

\* variant of ToNumeric: a text that is not a number is left as it is
ToNumeric_KeepText(c) ==
    CASE c.k = "num" -> c
      [] c.k = "str" -> IF c.s # <<>> /\ \A i \in 1..Len(c.s) : IsDigit(c.s[i])
                        THEN LNum(NumberOf(c.s)) ELSE c
      [] OTHER       -> LNum(0)

\* line 151: pd.to_numeric(errors='coerce').fillna(0) on one cell
ToNumeric(c) ==
    CASE c.k = "num" -> c
      [] c.k = "str" -> IF c.s # <<>> /\ \A i \in 1..Len(c.s) : IsDigit(c.s[i])
                        THEN LNum(NumberOf(c.s)) ELSE LNum(0)
      [] OTHER       -> LNum(0)

\* string order of Python: by the first differing character, a proper prefix
\* first; the year strings hold digits only
RECURSIVE StrLess(_, _)
StrLess(a, b) ==
    IF a = <<>> THEN b # <<>>
    ELSE IF b = <<>> THEN FALSE
    ELSE IF Head(a) = Head(b) THEN StrLess(Tail(a), Tail(b))
    ELSE DigitVal(Head(a)) < DigitVal(Head(b))

\* sorted(S, reverse=True)
RECURSIVE SortedDesc(_)
SortedDesc(S) ==
    IF S = {} THEN <<>>
    ELSE LET m == CHOOSE x \in S : \A y \in S \ {x} : StrLess(y, x)
         IN  <<m>> \o SortedDesc(S \ {m})

\* variant of YearsOf: the detected names in detection order, not sorted and
\* not deduplicated
YearsOf_AsDetected(year_columns) ==
    [j \in 1..Len(year_columns) |-> year_columns[j][2]]

\* line 106: sorted(set(col[1] for col in year_columns), reverse=True)
YearsOf(year_columns) ==
    SortedDesc({year_columns[i][2] : i \in 1..Len(year_columns)})

S_Concepto == <<"C", "o", "n", "c", "e", "p", "t", "o">>
S_Col(d)   == <<"C", "o", "l", d>>
S_2025 == <<"2", "0", "2", "5">>
S_2024 == <<"2", "0", "2", "4">>
S_2023 == <<"2", "0", "2", "3">>
S_2022 == <<"2", "0", "2", "2">>

\* lines 96-97: the column names of the positional layout
PositionalNames ==
    <<S_Col("1"), S_Concepto, S_Col("3"), S_Col("4"), S_Col("5"), S_Col("6"),
      S_2025, S_2024, S_2023, S_2022>>

\* lines 98 and 136
DefaultYears == <<S_2025, S_2024, S_2023, S_2022>>

PositionalCols == 10   \* line 95
HeadRows       == 5    \* line 86
SampleRows     == 20   \* line 112
MinTextLen     == 5    \* line 115

Min(a, b) == IF a < b THEN a ELSE b

RECURSIVE SelectIdx(_, _, _)
\* the indices i in lo..hi with Test[i], in increasing order
SelectIdx(lo, hi, Test) ==
    IF lo > hi THEN <<>>
    ELSE (IF Test[lo] THEN <<lo>> ELSE <<>>) \o SelectIdx(lo + 1, hi, Test)

\* lines 78 and 88: str(value).strip()
StripStr(c) == Strip(StrOf(c))

\* lines 77-82: the (position, name) pairs of the headers that are years
HeaderPairs(raw, idx) == [j \in 1..Len(idx) |-> <<idx[j], StripStr(raw.hdrs[idx[j]])>>]

HeaderYears(raw) ==
    HeaderPairs(raw, SelectIdx(1, Len(raw.hdrs),
        [i \in 1..Len(raw.hdrs) |-> year_pattern(StripStr(raw.hdrs[i]))]))

\* lines 86-90: the year tokens of the first rows, row by row; cell p of the
\* scan is in row (p - 1) \div nc + 1 and column (p - 1) % nc + 1
CellAt(raw, nc, p) == raw.data[((p - 1) % nc) + 1][((p - 1) \div nc) + 1]

RowPairs(raw, nc, idx) ==
    [j \in 1..Len(idx) |-> <<((idx[j] - 1) % nc) + 1, StripStr(CellAt(raw, nc, idx[j]))>>]

RowYearsIn(raw, nc, nr) ==
    RowPairs(raw, nc, SelectIdx(1, nr * nc,
        [p \in 1..(nr * nc) |-> year_pattern(StripStr(CellAt(raw, nc, p)))]))

RowYears(raw) == RowYearsIn(raw, Len(raw.hdrs), Min(HeadRows, raw.n))

\* line 84: the years of the rows are used when the headers hold none
OrElse(a, b) == IF a # <<>> THEN a ELSE b

\* lines 74-90
YearColumns(raw) == OrElse(HeaderYears(raw), RowYears(raw))

\* lines 112-116: column i qualifies as the text column
TextShare(sample) ==
    /\ Len(sample) > 0
    /\ 2 * Len(SelectSeq(sample, LAMBDA c : c.k = "str" /\ Len(c.s) > MinTextLen))
          > Len(sample)

IsTextColumn(raw, i) ==
    TextShare(SelectSeq(SubSeq(raw.data[i], 1, Min(SampleRows, raw.n)),
                        LAMBDA c : c.k # "nan"))

\* lines 109-121
FirstOr(Q, default) == IF Q # {} THEN CHOOSE i \in Q : \A j \in Q : i <= j ELSE default

ConceptoCol(raw, year_columns) ==
    FirstOr({i \in 1..Len(raw.hdrs) :
                /\ \A j \in 1..Len(year_columns) : year_columns[j][1] # i
                /\ IsTextColumn(raw, i)},
            IF Len(raw.hdrs) > 1 THEN 2 ELSE 1)

\* lines 124-126: the insertion-ordered dict columns_to_keep as a sequence of
\* (name, position) pairs; a repeated name keeps its place and takes the
\* later position
PutColumn(keep, name, pos) ==
    IF \E q \in 1..Len(keep) : keep[q][1] = name
    THEN [q \in 1..Len(keep) |-> IF keep[q][1] = name THEN <<name, pos>> ELSE keep[q]]
    ELSE Append(keep, <<name, pos>>)

RECURSIVE ColumnsToKeep(_, _, _)
ColumnsToKeep(keep, year_columns, j) ==
    IF j > Len(year_columns) THEN keep
    ELSE ColumnsToKeep(PutColumn(keep, year_columns[j][2], year_columns[j][1]),
                       year_columns, j + 1)

NoGrid == [none |-> TRUE, hdrs |-> <<>>, data |-> <<>>, n |-> 0]

\* the instance had loaded no document before its latest load()
NoLoad == [some |-> FALSE, df |-> NoGrid, years |-> <<>>]

MkGrid(hdrs, data, n) == [none |-> FALSE, hdrs |-> hdrs, data |-> data, n |-> n]

\* variant of PositionalFallback: the layout is tried from nine columns on
PositionalFallback_Nine(raw, st) ==
    IF Len(raw.hdrs) >= PositionalCols - 1
    THEN IF Len(raw.hdrs) = Len(PositionalNames)
         THEN [st EXCEPT !.years = DefaultYears,
                         !.df = MkGrid(PositionalNames, raw.data, raw.n)]
         ELSE [st EXCEPT !.result = "ValueError"]
    ELSE [st EXCEPT !.result = "ValidationError"]

\* lines 92-103: the positional layout.  Assigning ten names to df.columns
\* raises pandas' ValueError unless the grid has exactly ten columns.
PositionalFallback(raw, st) ==
    IF Len(raw.hdrs) >= PositionalCols
    THEN IF Len(raw.hdrs) = Len(PositionalNames)
         THEN [st EXCEPT !.years = DefaultYears,
                         !.df = MkGrid(PositionalNames, raw.data, raw.n)]
         ELSE [st EXCEPT !.result = "ValueError"]
    ELSE [st EXCEPT !.result = "ValidationError"]

\* variant of NewGrid: every column of the raw grid is kept after the new ones
NewGrid_KeepAll(raw, keep) ==
    MkGrid([q \in 1..Len(keep) |-> keep[q][1]]
               \o [i \in 1..Len(raw.hdrs) |-> StrOf(raw.hdrs[i])],
           [q \in 1..Len(keep) |-> raw.data[keep[q][2]]] \o raw.data,
           raw.n)

\* lines 128-132: the new grid of the columns kept
NewGrid(raw, keep) ==
    MkGrid([q \in 1..Len(keep) |-> keep[q][1]],
           [q \in 1..Len(keep) |-> raw.data[keep[q][2]]],
           raw.n)

\* lines 105-132: the grid rebuilt from the label column and the year columns
Rebuild(raw, st, year_columns) ==
    [st EXCEPT !.years = YearsOf(year_columns),
               !.df = NewGrid(raw,
                   ColumnsToKeep(<<<<S_Concepto, ConceptoCol(raw, year_columns)>>>>,
                                 year_columns, 1))]

\* lines 92-132
Detect(st, year_columns) ==
    IF year_columns = <<>> THEN PositionalFallback(st.raw, st)
    ELSE Rebuild(st.raw, st, year_columns)

\* lines 134-136
YearsOrDefault(st) ==
    IF st.result = "ok" /\ st.years = <<>> THEN [st EXCEPT !.years = DefaultYears]
    ELSE st

\* _detect_and_rename_columns, lines 68-138; st = [raw, df, years, result]
_detect_and_rename_columns(st) == YearsOrDefault(Detect(st, YearColumns(st.raw)))

\* line 151 on one column
CleanColumn(df, years, q) ==
    IF df.hdrs[q] \in Range(years)
    THEN [r \in 1..df.n |-> ToNumeric(df.data[q][r])]
    ELSE df.data[q]

\* _clean_data, lines 140-151
_clean_data(st) ==
    IF st.df.none THEN st
    ELSE [st EXCEPT !.df.data =
             [q \in 1..Len(st.df.hdrs) |-> CleanColumn(st.df, st.years, q)]]

\* lines 160 and 168-170
YearCols(df, years) == {q \in 1..Len(df.hdrs) : df.hdrs[q] \in Range(years)}

NonZeroCount(df, ycols) ==
    Cardinality({<<q, r>> \in ycols \X (1..df.n) : df.data[q][r] # LNum(0)})

\* variant of _validate_structure: the count of nonzero values is not checked
_validate_structure_NoCount(st) ==
    IF st.df.none \/ st.df.n = 0 THEN [st EXCEPT !.result = "ValidationError"]
    ELSE IF YearCols(st.df, st.years) = {} THEN [st EXCEPT !.result = "ValidationError"]
    ELSE st

\* _validate_structure, lines 153-176
_validate_structure(st) ==
    IF st.df.none \/ st.df.n = 0 THEN [st EXCEPT !.result = "ValidationError"]
    ELSE IF YearCols(st.df, st.years) = {} THEN [st EXCEPT !.result = "ValidationError"]
    ELSE IF NonZeroCount(st.df, YearCols(st.df, st.years)) = 0
         THEN [st EXCEPT !.result = "ValidationError"]
    ELSE st

\* a file pd.read_excel cannot parse
Corrupt == [none |-> TRUE, hdrs |-> <<>>, data |-> <<>>, n |-> -1]

\* lines 63-64, reached when line 62 did not raise
CleanAndValidate(st) ==
    IF st.result # "ok" THEN st ELSE _validate_structure(_clean_data(st))

\* load, lines 38-66
load(file, st) ==
    IF file = Corrupt THEN [st EXCEPT !.result = "DataLoadError"]
    ELSE CleanAndValidate(
             _detect_and_rename_columns([st EXCEPT !.raw = file, !.result = "ok"]))

(***************************************************************************)
\* get_years, lines 181-183
get_years(st) == st.years

\* get_dataframe, lines 185-189: [raised |-> TRUE] stands for DataLoadError
get_dataframe(st) ==
    IF st.df.none THEN [raised |-> TRUE, df |-> NoGrid]
    ELSE [raised |-> FALSE, df |-> st.df]

(***************************************************************************)

(* utils/balance_loader.py : BalanceLoader, BalanceKPIExtractor            *)
(* A balance file is [readable, ncols, rows]; a row is [concepto, lower,   *)
(* vals]: the text of its Concepto cell, the lowered text of Col1, Col2    *)
(* and Concepto joined, and its amounts under the four year columns.       *)
(***************************************************************************)
\* the year columns BalanceLoader.load names, line 21
BalanceYearColumns == {"2025", "2024", "2023", "2022"}

\* the markers and account codes each label of this model contains
SubstringsOf(text) ==
    CASE text = "total activo (a+b)" -> {"total activo (a+b)", "activo", "total"}
      [] text = "c) pasivo corriente" -> {"c) pasivo corriente"}
      [] text = "i. capital" -> {"i. capital"}
      [] text = "a) activo no corriente i. inmovilizado intangible"
            -> {"a) activo no corriente", "i. inmovilizado intangible", "activo"}
      [] text = "c) pasivo corriente iii. reservas"
            -> {"c) pasivo corriente", "iii. reservas", "ii. reservas", "i. reservas"}
      [] text = "iii. reservas" -> {"iii. reservas", "ii. reservas", "i. reservas"}
      [] text = "217 EQUIPOS PARA PROCESOS" -> {"217 EQUIPOS"}
      [] OTHER -> {}

\* marker in text
In(marker, text) == marker \in SubstringsOf(text)

\* BalanceLoader.load, lines 16-30: [raised, df]; read_excel raises on a file
\* it cannot parse, and naming ten columns raises unless the sheet has ten
BalanceLoad(file) ==
    IF ~file.readable \/ file.ncols # 10 THEN [raised |-> TRUE, df |-> <<>>]
    ELSE [raised |-> FALSE, df |-> file.rows]

\* {year: row[year] for year in self.years}: [raised |-> TRUE] stands for the
\* KeyError of a year that is not a column of the balance grid
RowYears_(row, years) ==
    IF Range(years) \subseteq BalanceYearColumns
    THEN [raised |-> FALSE, val |-> [y \in Range(years) |-> row.vals[y]]]
    ELSE [raised |-> TRUE, val |-> EmptyDict]

\* BalanceKPIExtractor.extract_all, lines 57-98: the if/elif chain in source
\* order.  unless: a text that must not occur in the label; absent: the
\* branch is only entered while the concept is not in kpis; first: the branch
\* is entered but assigns only while the concept is not in kpis.
Marker(marker, name, unless, absent, first) ==
    [marker |-> marker, name |-> name, unless |-> unless, absent |-> absent,
     first |-> first]

BALANCE_MARKERS == <<
    Marker("a) activo no corriente", "activo_no_corriente", "", FALSE, FALSE),
    Marker("b) activo corriente", "activo_corriente", "", FALSE, FALSE),
    Marker("total activo (a+b)", "total_activo", "", FALSE, FALSE),
    Marker("i. existencias", "existencias", "activo", FALSE, FALSE),
    Marker("ii. deudores comerciales y otras cuentas a cobrar", "deudores", "", FALSE, FALSE),
    Marker("vi. efectivo y otros activos líquidos", "efectivo", "", FALSE, FALSE),
    Marker("i. inmovilizado intangible", "inmovilizado_intangible", "", FALSE, FALSE),
    Marker("ii. inmovilizado material", "inmovilizado_material", "", FALSE, FALSE),
    Marker("a) patrimonio neto", "patrimonio_neto", "total", FALSE, FALSE),
    Marker("a-1) fondos propios", "fondos_propios", "", FALSE, FALSE),
    Marker("i. capital", "capital", "social", FALSE, TRUE),
    Marker("iii. reservas", "reservas", "", TRUE, FALSE),
    Marker("vii. resultado del ejercicio", "resultado_ejercicio_balance", "", FALSE, FALSE),
    Marker("b) pasivo no corriente", "pasivo_no_corriente", "", FALSE, FALSE),
    Marker("c) pasivo corriente", "pasivo_corriente", "", FALSE, FALSE),
    Marker("total patrimonio neto y pasivo", "total_pasivo_patrimonio", "", FALSE, FALSE),
    Marker("ii. deudas a largo plazo", "deudas_largo_plazo", "", FALSE, FALSE),
    Marker("ii. deudas a corto plazo", "deudas_corto_plazo", "", FALSE, FALSE),
    Marker("iv. acreedores comerciales y otras cuentas a pagar", "acreedores", "", FALSE, FALSE) >>

\* the condition of branch k of the chain for a label
BranchTaken(k, lower, kpis_) ==
    /\ In(BALANCE_MARKERS[k].marker, lower)
    /\ BALANCE_MARKERS[k].unless = "" \/ ~In(BALANCE_MARKERS[k].unless, lower)
    /\ BALANCE_MARKERS[k].absent => BALANCE_MARKERS[k].name \notin DOMAIN kpis_

\* the assignment of branch k (k = 0: no branch is entered)
BalanceAssign(st, k, rowyears) ==
    IF k = 0 THEN st
    ELSE IF BALANCE_MARKERS[k].first /\ BALANCE_MARKERS[k].name \in DOMAIN st.kpis THEN st
    ELSE IF rowyears.raised THEN [st EXCEPT !.raised = TRUE]
    ELSE [st EXCEPT !.kpis = DictSet(@, BALANCE_MARKERS[k].name, rowyears.val)]

\* lines 49-98 for one row; st = [raised, kpis]
BalanceRow(st, row, years) ==
    BalanceAssign(st,
        FirstOrZero({k \in 1..Len(BALANCE_MARKERS) : BranchTaken(k, row.lower, st.kpis)}),
        RowYears_(row, years))

RECURSIVE BalanceFrom(_, _, _, _)
BalanceFrom(i, st, df, years) ==
    IF i > Len(df) \/ st.raised THEN st
    ELSE BalanceFrom(i + 1, BalanceRow(st, df[i], years), df, years)

\* BalanceKPIExtractor.extract_all, lines 44-100: [raised, kpis]
balance_extract_all(df, years) ==
    BalanceFrom(1, [raised |-> FALSE, kpis |-> EmptyDict], df, years)

\* extract_detailed_activo, lines 106-116: (account code, name) in list order
ActivoCategorias == <<
    <<"210 TERRENOS", "Terrenos">>,
    <<"211 CONSTRUCCIONES", "Construcciones">>,
    <<"212 INSTALACIONES", "Instalaciones Técnicas">>,
    <<"213 MAQUINARIA", "Maquinaria">>,
    <<"214 UTILLAJE", "Utillaje">>,
    <<"215 OTRAS INSTALACIONES", "Otras Instalaciones">>,
    <<"216 MOBILIARIO", "Mobiliario">>,
    <<"217 EQUIPOS", "Equipos Informáticos">>,
    <<"218 ELEMENTOS DE TRANSPORTE", "Elementos de Transporte">> >>

\* extract_detailed_pasivo, lines 139-148: the if/elif chain
PasivoCategorias == <<
    <<"100 capital social", "Capital Social">>,
    <<"113 reservas voluntarias", "Reservas Voluntarias">>,
    <<"170 deudas a largo", "Deudas LP Entidades Crédito">>,
    <<"520 deudas corto plazo", "Deudas CP Entidades Crédito">>,
    <<"524 acreedores arrendamiento", "Arrendamiento Financiero CP">> >>

\* the body of the loop of a detail extraction: the first category whose
\* code occurs in the label is assigned; st = [raised, kpis]
DetalleAssign(st, categorias, k, rowyears) ==
    IF k = 0 THEN st
    ELSE IF rowyears.raised THEN [st EXCEPT !.raised = TRUE]
    ELSE [st EXCEPT !.kpis = DictSet(@, categorias[k][2], rowyears.val)]

RECURSIVE DetalleFrom(_, _, _, _, _, _)
DetalleFrom(i, st, categorias, field, df, years) ==
    IF i > Len(df) \/ st.raised THEN st
    ELSE DetalleFrom(i + 1,
             DetalleAssign(st, categorias,
                 FirstOrZero({k \in 1..Len(categorias) : In(categorias[k][1], df[i][field])}),
                 RowYears_(df[i], years)),
             categorias, field, df, years)

\* extract_detailed_activo, lines 102-126: searched in the Concepto cell
extract_detailed_activo(df, years) ==
    DetalleFrom(1, [raised |-> FALSE, kpis |-> EmptyDict], ActivoCategorias,
                "concepto", df, years)

\* extract_detailed_pasivo, lines 128-150: searched in the lowered joined text
extract_detailed_pasivo(df, years) ==
    DetalleFrom(1, [raised |-> FALSE, kpis |-> EmptyDict], PasivoCategorias,
                "lower", df, years)

(***************************************************************************)
(* utils/balance_loader.py : calculate_financial_ratios                    *)
(* A quotient a / b is kept exact as [num |-> a, den |-> b]; a plain       *)
(* number v is [num |-> v, den |-> 1].  den = 0 stands for the division    *)
(* by zero that Python answers with ZeroDivisionError, inf or NaN.         *)
(***************************************************************************)
Frac(a, b) == [num |-> a, den |-> b]
Whole(v)   == [num |-> v, den |-> 1]

\* variant of Get: a missing concept or year reads as 1
Get_DefaultOne(kpi_map, name, year) ==
    IF name \in DOMAIN kpi_map /\ year \in DOMAIN kpi_map[name]
    THEN kpi_map[name][year] ELSE 1

\* kpis.get(name, {}).get(year, 0), lines 171-184
Get(kpi_map, name, year) ==
    IF name \in DOMAIN kpi_map /\ year \in DOMAIN kpi_map[name]
    THEN kpi_map[name][year] ELSE 0

\* variant of LiquidityRatios: the acid test keeps the stock
LiquidityRatios_NoStock(activo_corriente, existencias, efectivo, pasivo_corriente) ==
    IF pasivo_corriente > 0
    THEN [ratio_liquidez  |-> Frac(activo_corriente, pasivo_corriente),
          ratio_acid_test |-> Frac(activo_corriente, pasivo_corriente),
          ratio_tesoreria |-> Frac(efectivo, pasivo_corriente)]
    ELSE [ratio_liquidez  |-> Whole(0),
          ratio_acid_test |-> Whole(0),
          ratio_tesoreria |-> Whole(0)]

\* variant of LiquidityRatios: no guard on the denominator
LiquidityRatios_Unguarded(activo_corriente, existencias, efectivo, pasivo_corriente) ==
    [ratio_liquidez  |-> Frac(activo_corriente, pasivo_corriente),
     ratio_acid_test |-> Frac(activo_corriente - existencias, pasivo_corriente),
     ratio_tesoreria |-> Frac(efectivo, pasivo_corriente)]

\* lines 188-196
LiquidityRatios(activo_corriente, existencias, efectivo, pasivo_corriente) ==
    IF pasivo_corriente > 0
    THEN [ratio_liquidez  |-> Frac(activo_corriente, pasivo_corriente),
          ratio_acid_test |-> Frac(activo_corriente - existencias, pasivo_corriente),
          ratio_tesoreria |-> Frac(efectivo, pasivo_corriente)]
    ELSE [ratio_liquidez  |-> Whole(0),
          ratio_acid_test |-> Whole(0),
          ratio_tesoreria |-> Whole(0)]

\* variant of Solvencia: numerator and denominator exchanged
Solvencia_Inverted(activo_total, pasivo_total) ==
    IF activo_total > 0 THEN Frac(pasivo_total, activo_total) ELSE Whole(0)

\* lines 230-233
Solvencia(activo_total, pasivo_total) ==
    IF pasivo_total > 0 THEN Frac(activo_total, pasivo_total) ELSE Whole(0)

\* lines 168-244: the ratios of one year
YearRatios(balance_kpis, pyg_kpis, year) ==
    LET activo_total        == Get(balance_kpis, "total_activo", year)
        activo_corriente    == Get(balance_kpis, "activo_corriente", year)
        activo_no_corriente == Get(balance_kpis, "activo_no_corriente", year)
        pasivo_corriente    == Get(balance_kpis, "pasivo_corriente", year)
        pasivo_no_corriente == Get(balance_kpis, "pasivo_no_corriente", year)
        patrimonio_neto     == Get(balance_kpis, "patrimonio_neto", year)
        fondos_propios      == Get(balance_kpis, "fondos_propios", year)
        existencias         == Get(balance_kpis, "existencias", year)
        efectivo            == Get(balance_kpis, "efectivo", year)
        deudores            == Get(balance_kpis, "deudores", year)
        resultado_neto      == Get(pyg_kpis, "resultado_neto", year)
        ingresos            == Get(pyg_kpis, "ingresos", year)
        ebit                == Get(pyg_kpis, "ebitda", year)
        pasivo_total        == pasivo_corriente + pasivo_no_corriente
        liq == LiquidityRatios(activo_corriente, existencias, efectivo, pasivo_corriente)
        fondo_maniobra      == activo_corriente - pasivo_corriente
    IN  [ratio_liquidez  |-> liq.ratio_liquidez,
         ratio_acid_test |-> liq.ratio_acid_test,
         ratio_tesoreria |-> liq.ratio_tesoreria,
         ratio_endeudamiento |->
             IF activo_total > 0 THEN Frac(pasivo_total, activo_total) ELSE Whole(0),
         ratio_autonomia |->
             IF activo_total > 0 THEN Frac(patrimonio_neto, activo_total) ELSE Whole(0),
         ratio_apalancamiento |->
             IF patrimonio_neto > 0 THEN Frac(pasivo_total, patrimonio_neto) ELSE Whole(0),
         roe |->
             IF patrimonio_neto > 0 THEN Frac(resultado_neto * 100, patrimonio_neto)
             ELSE Whole(0),
         roa |->
             IF activo_total > 0 THEN Frac(resultado_neto * 100, activo_total)
             ELSE Whole(0),
         rotacion_activos |->
             IF activo_total > 0 THEN Frac(ingresos, activo_total) ELSE Whole(0),
         margen_neto |->
             IF ingresos > 0 THEN Frac(resultado_neto * 100, ingresos) ELSE Whole(0),
         ratio_solvencia |-> Solvencia(activo_total, pasivo_total),
         fondo_maniobra |-> Whole(fondo_maniobra),
         capital_circulante_ratio |->
             IF activo_total > 0 THEN Frac(fondo_maniobra, activo_total) ELSE Whole(0)]

\* calculate_financial_ratios, lines 153-246
calculate_financial_ratios(balance_kpis, pyg_kpis, years) ==
    [year \in Range(years) |-> YearRatios(balance_kpis, pyg_kpis, year)]

(***************************************************************************)
(* Inputs of SpecRatios: KPI maps with at most MaxPresent concepts; a      *)
(* concept present has an amount for 2024, or an entry for 2023 only.      *)
(***************************************************************************)
BalanceInputs == {"total_activo", "activo_corriente", "pasivo_corriente",
                  "pasivo_no_corriente", "patrimonio_neto", "existencias",
                  "efectivo"}

PygInputs == {"resultado_neto", "ingresos"}

YearMaps == {[y \in {"2024"} |-> v] : v \in (-MaxAmount)..MaxAmount}
                \cup {[y \in {"2023"} |-> MaxAmount]}

RatioYearLists == { <<"2024", "2023">> }

KpiMaps(names) ==
    UNION { [P -> YearMaps] :
              P \in {Q \in SUBSET names : Cardinality(Q) <= MaxPresent} }

(***************************************************************************)
(* app.py : main, components/sidebar.py : render_sidebar                   *)
(***************************************************************************)
\* None and a value, for the locals of main() that start as None
None_ == [some |-> FALSE, val |-> EmptyDict]
Some(v) == [some |-> TRUE, val |-> v]

\* pyg_file is None / balance_file is None
NoFile == [none |-> TRUE, hdrs |-> <<>>, data |-> <<>>, n |-> -2]
NoBalanceFile == [readable |-> FALSE, ncols |-> -1, rows |-> <<>>]

\* no earlier run has extracted a P&L file
NoPrev == [some |-> FALSE, file |-> NoFile, years |-> <<>>, kpis |-> EmptyDict,
           not_found |-> <<>>]

\* sidebar.py, lines 80-93: the sections offered
PygSections ==
    <<"Resumen Ejecutivo", "Ingresos", "Gastos", "Análisis Comparativo", "KPIs Avanzados">>

BalanceSections == <<"Balance de Situación", "Ratios Financieros">>

\* variant of SectionsOffered: the Balance and Ratios sections are always
\* in the list
SectionsOffered_Always(has_balance) == PygSections \o BalanceSections

SectionsOffered(has_balance) ==
    IF has_balance THEN PygSections \o BalanceSections ELSE PygSections

\* what main() displays
ShowWelcome        == "show_welcome_screen"
ErrorLoad          == "show_error: Error al cargar P&G"
ErrorValidation    == "show_error: Error de validación en P&G"
ErrorUnexpected    == "show_error: Error inesperado"
WarningMissing     == "show_warning: No se encontraron algunos KPIs en P&G"
InfoComplete       == "info: Análisis completo disponible"
WarningBalance     == "show_warning: No se pudo cargar el Balance"
WarningNoBalance   == "warning: sube el archivo de Balance"
ErrorRender        == "show_error: Error al mostrar sección"
RenderBalance      == "render_balance"
RenderRatios       == "render_ratios_financieros"

\* lines 293-306: the renderer of a P&L section
RenderOf(section) ==
    CASE section = "Resumen Ejecutivo" -> "render_resumen"
      [] section = "Ingresos" -> "render_ingresos"
      [] section = "Gastos" -> "render_gastos"
      [] section = "Análisis Comparativo" -> "render_comparativo"
      [] OTHER -> "render_kpis_avanzados"

\* The grid DataLoader returns is the grid KPIExtractor reads (line 240):
\* the same names and cells, a text cell as the sequence of its words.
S_2021 == <<"2", "0", "2", "1">>
S_VentasNetas == <<"V", "e", "n", "t", "a", "s", " ", "n", "e", "t", "a", "s">>

NameOf(chars) ==
    CASE chars = S_Concepto -> "Concepto"
      [] chars = S_2025 -> "2025"
      [] chars = S_2024 -> "2024"
      [] chars = S_2023 -> "2023"
      [] chars = S_2022 -> "2022"
      [] chars = S_2021 -> "2021"
      [] chars = S_Col("1") -> "Col1"
      [] chars = S_Col("3") -> "Col3"
      [] chars = S_Col("4") -> "Col4"
      [] chars = S_Col("5") -> "Col5"
      [] chars = S_Col("6") -> "Col6"
      [] OTHER -> "Col"

WordsOf(chars) ==
    CASE chars = S_VentasNetas -> <<"Ventas", "netas">>
      [] OTHER -> <<"texto">>

CellView(c) ==
    CASE c.k = "num" -> Num(c.n)
      [] c.k = "str" -> Txt(WordsOf(c.s))
      [] OTHER -> NaN

ColumnNamed(df, name) == CHOOSE q \in 1..Len(df.hdrs) : NameOf(df.hdrs[q]) = name

GridView(df) ==
    [cols |-> [q \in 1..Len(df.hdrs) |-> NameOf(df.hdrs[q])],
     rows |-> [r \in 1..df.n |->
                [name \in {NameOf(df.hdrs[q]) : q \in 1..Len(df.hdrs)} |->
                    CellView(df.data[ColumnNamed(df, name)][r])]]]

YearNames(years) == [i \in 1..Len(years) |-> NameOf(years[i])]

\* lines 207-236: the step after loader.load(pyg_file)
AfterLoad_Continue(result) == "extract_pyg"

AfterLoad(result) == IF result = "ok" THEN "extract_pyg" ELSE "end"

\* lines 212-236: the error shown for an exception of load()
LoadError(result) ==
    CASE result = "DataLoadError" -> <<ErrorLoad>>
      [] result = "ValidationError" -> <<ErrorValidation>>
      [] result = "ok" -> <<>>
      [] OTHER -> <<ErrorUnexpected>>

\* variant of FreshExtractorState: the list of missing concepts is shared by
\* the instances
FreshExtractorState_Shared ==
    [kpis |-> EmptyDict, found |-> <<>>, not_found |-> a_prev.not_found]

\* KPIExtractor(df_pyg, years), line 240, with __init__, lines 25-30
FreshExtractorState == [kpis |-> EmptyDict, found |-> <<>>, not_found |-> <<>>]

\* lines 263-273: the steps of the balance processing, each reached when the
\* one before did not raise; the locals assigned before a raise keep their
\* values
BalanceOutcome(raised, balance_kpis, activo, pasivo, ratios_) ==
    [raised |-> raised, balance_kpis |-> balance_kpis, activo |-> activo,
     pasivo |-> pasivo, ratios |-> ratios_]

BalanceRatios(bk, ac, pa, pyg_kpis, years) ==
    BalanceOutcome(FALSE, Some(bk), Some(ac), Some(pa),
                   Some(calculate_financial_ratios(bk, pyg_kpis, years)))

BalancePasivo(bk, ac, pa, pyg_kpis, years) ==
    IF pa.raised THEN BalanceOutcome(TRUE, Some(bk), Some(ac), None_, None_)
    ELSE BalanceRatios(bk, ac, pa.kpis, pyg_kpis, years)

BalanceActivo(df, bk, ac, pyg_kpis, years) ==
    IF ac.raised THEN BalanceOutcome(TRUE, Some(bk), None_, None_, None_)
    ELSE BalancePasivo(bk, ac.kpis, extract_detailed_pasivo(df, years), pyg_kpis, years)

BalanceKpis(df, ex, pyg_kpis, years) ==
    IF ex.raised THEN BalanceOutcome(TRUE, None_, None_, None_, None_)
    ELSE BalanceActivo(df, ex.kpis, extract_detailed_activo(df, years), pyg_kpis, years)

BalanceLoaded(ld, pyg_kpis, years) ==
    IF ld.raised THEN BalanceOutcome(TRUE, None_, None_, None_, None_)
    ELSE BalanceKpis(ld.df, balance_extract_all(ld.df, years), pyg_kpis, years)

BalanceProcessing(file, pyg_kpis, years) ==
    BalanceLoaded(BalanceLoad(file), pyg_kpis, years)

\* lines 292-319: what rendering the selected section displays
SectionDisplay(section, has_balance, balance_kpis, ratios_some) ==
    IF section = "Balance de Situación"
    THEN IF has_balance
         THEN IF balance_kpis.some THEN <<RenderBalance>>
              ELSE <<RenderBalance, ErrorRender>>
         ELSE <<WarningNoBalance>>
    ELSE IF section = "Ratios Financieros"
    THEN IF has_balance /\ ratios_some THEN <<RenderRatios>> ELSE <<WarningNoBalance>>
    ELSE <<RenderOf(section)>>

(***************************************************************************)
(* Inputs of SpecExtractor                                                 *)
(***************************************************************************)
\* year cells: a negative number, a positive number, or NaN
YearCells == {NaN, Num(-2), Num(3)}

\* the text cells (Col1, Concepto) of a row
LabelPairs == {
    <<NaN, Txt(<<"VENTAS", "NETAS">>)>>,
    <<NaN, Txt(<<"4.", "aprovisionamientos">>)>>,
    <<Txt(<<"otros", "ingresos", "netos">>), NaN>>,
    <<NaN, Txt(<<"total">>)>>,
    <<Txt(<<"ventas">>), Txt(<<"netas">>)>> }

\* column layouts: with and without the column of year 2024
Layouts == { <<"Col1", "Concepto", "2024">>, <<"Col1", "Concepto">> }

\* the years list: 2023 has no column in any layout
YearLists == { <<"2024", "2023">> }

RowsFor(cols) ==
    { [c \in Range(cols) |->
          IF c = "Col1" THEN lp[1] ELSE IF c = "Concepto" THEN lp[2] ELSE v]
      : lp \in LabelPairs, v \in YearCells }

Grids == UNION { {[cols |-> c, rows |-> r] : r \in SeqsUpTo(RowsFor(c), MaxRows)}
                 : c \in Layouts }

(***************************************************************************)
(* Inputs of SpecDetail: grids with the columns Concepto and 2024 and up   *)
(* to MaxDRows rows; the amount of a row goes with its label.              *)
(***************************************************************************)
DetailRow(label, amount) ==
    [c \in {"Concepto", "2024"} |-> IF c = "Concepto" THEN Txt(label) ELSE Num(amount)]

DetailRowKinds == {
    DetailRow(<<"705", "PRESTACIONES", "DE", "SERVICIOS">>, 3),
    DetailRow(<<"2.", "Variación">>, 3),
    DetailRow(<<"705.0.0.1", "Discrecional">>, -2),
    DetailRow(<<"705.0.0.2", "Regular">>, 3),
    DetailRow(<<"602.0.0.1", "Gasoil">>, -2),
    DetailRow(<<"640", "SUELDOS">>, -2),
    DetailRow(<<"642", "SEGURIDAD", "SOCIAL", "640", "SUELDOS">>, 3),
    DetailRow(<<"622", "REPARACIONES">>, -2) }

DetailGrids ==
    {[cols |-> <<"Concepto", "2024">>, rows |-> r] : r \in SeqsUpTo(DetailRowKinds, MaxDRows)}

(***************************************************************************)
(* Inputs of SpecLoader: raw grids made of up to MaxLead leading columns   *)
(* of any kind, filled up to the column count with columns of one filler   *)
(* kind.                                                                   *)
(***************************************************************************)
ColKinds == {"label", "y24", "y23i", "y2100", "rowyear", "lateyear"}

PadKinds == {"padnum", "padnan"}

HdrOf(kind) ==
    CASE kind = "y24"   -> LStr(<<" ", "2", "0", "2", "4">>)
      [] kind = "y23i"  -> LNum(2023)
      [] kind = "y2100" -> LStr(<<"2", "1", "0", "0">>)
      [] kind = "label" -> LStr(<<"C", "t", "a">>)
      [] OTHER          -> LStr(<<"U">>)

CellOf(kind, r) ==
    CASE kind = "label"    -> LStr(<<"V", "e", "n", "t", "a", "s">>)
      [] kind = "y24"      -> LNum(1)
      [] kind = "y23i"     -> LStr(<<"-">>)
      [] kind = "y2100"    -> LNum(0)
      [] kind = "rowyear"  -> IF r = 1 THEN LNum(2022) ELSE LNum(3)
      [] kind = "lateyear" -> IF r = HeadRows + 1 THEN LStr(S_2025)
                              ELSE LStr(<<"a", "b">>)
      [] kind = "padnum"   -> LNum(1)
      [] OTHER             -> LNaN

ColCounts == (1..MaxLead) \cup ((PositionalCols - 1)..MaxCols)

\* no row, one row, and more rows than the year scan reads
RowCounts == {0, 1, MaxLRows}

\* pd.read_excel renames a repeated header h to h.1, h.2, ...
RawGrid(lead, pad, nc, nr) ==
    LET KindAt(i) == IF i <= Len(lead) THEN lead[i] ELSE pad
        Before(i) == Cardinality({j \in 1..(i - 1) : HdrOf(KindAt(j)) = HdrOf(KindAt(i))})
        Hdr(i)    == IF Before(i) = 0 THEN HdrOf(KindAt(i))
                     ELSE LStr(StrOf(HdrOf(KindAt(i))) \o <<".">> \o DigitsOf(Before(i)))
    IN  MkGrid([i \in 1..nc |-> Hdr(i)],
               [i \in 1..nc |-> [r \in 1..nr |-> CellOf(KindAt(i), r)]],
               nr)

RawGrids ==
    { RawGrid(lead, pad, nc, nr) :
        lead \in SeqsUpTo(ColKinds, MaxLead), pad \in PadKinds,
        nc \in ColCounts, nr \in RowCounts }

Files == {Corrupt} \cup {g \in RawGrids : Len(g.hdrs) > 0}

\* the second file given to a loaded DataLoader: one read_excel cannot parse,
\* a sheet too narrow for the positional layout, a sheet whose year column
\* holds no number, a sheet that loads
ReloadFiles ==
    {Corrupt,
     RawGrid(<<"label">>, "padnan", 2, 1),
     RawGrid(<<"label", "y23i">>, "padnan", 2, 1),
     RawGrid(<<"label", "y24">>, "padnan", 2, 1)}

(***************************************************************************)
(* Inputs of SpecBalance: grids of up to MaxBRows rows as BalanceLoader     *)
(* returns them.  A row is the joined text of Col1, Col2 and Concepto and  *)
(* one amount, the same under every year column.                           *)
(***************************************************************************)
BalanceRowWith(lower, amount) ==
    [concepto |-> lower, lower |-> lower,
     vals |-> [y \in BalanceYearColumns |-> amount]]

BalanceRowKinds == {
    BalanceRowWith("total activo (a+b)", 1),
    BalanceRowWith("total activo (a+b)", 2),
    BalanceRowWith("i. capital", 1),
    BalanceRowWith("i. capital", 2),
    BalanceRowWith("a) activo no corriente i. inmovilizado intangible", 2),
    BalanceRowWith("iii. reservas", 1),
    BalanceRowWith("c) pasivo corriente iii. reservas", 2) }

BalanceGrids == SeqsUpTo(BalanceRowKinds, MaxBRows)

\* the years of the P&L file: columns of the balance grid, or not
BalanceYearLists == { <<"2024", "2023">>, <<"2021">> }

(***************************************************************************)
(* Inputs of SpecApp                                                       *)
(***************************************************************************)
\* a P&L sheet with a label column and one column per year given
PygSheet(years) ==
    MkGrid(<<LStr(<<"C", "t", "a">>)>> \o [i \in 1..Len(years) |-> LNum(years[i])],
           <<<<LStr(S_VentasNetas)>>>> \o [i \in 1..Len(years) |-> <<LNum(3)>>],
           1)

\* corrupt, without years, eleven columns without years, years 2024 and
\* 2023, year 2021
AppPygFiles ==
    {Corrupt,
     MkGrid(<<LStr(<<"C", "t", "a">>), LStr(<<"U">>)>>,
            <<<<LStr(S_VentasNetas)>>, <<LNum(3)>>>>, 1),
     RawGrid(<<>>, "padnum", PositionalCols + 1, 1),
     PygSheet(<<2024, 2023>>),
     PygSheet(<<2021>>)}

BalanceRowOf(concepto, lower) ==
    [concepto |-> concepto, lower |-> lower,
     vals |-> [y \in BalanceYearColumns |-> 2]]

\* corrupt, nine columns, ten columns with balance lines, ten columns with
\* a detail line only
AppBalanceFiles ==
    {[readable |-> FALSE, ncols |-> 0, rows |-> <<>>],
     [readable |-> TRUE, ncols |-> 9,
      rows |-> <<BalanceRowOf("TOTAL ACTIVO (A+B)", "total activo (a+b)")>>],
     [readable |-> TRUE, ncols |-> 10,
      rows |-> <<BalanceRowOf("TOTAL ACTIVO (A+B)", "total activo (a+b)"),
                 BalanceRowOf("C) PASIVO CORRIENTE", "c) pasivo corriente")>>],
     [readable |-> TRUE, ncols |-> 10,
      rows |-> <<BalanceRowOf("217 EQUIPOS PARA PROCESOS", "217 equipos para procesos")>>]}

(***************************************************************************)
(* Specifications                                                          *)
(***************************************************************************)
\* KPIExtractor.__init__, lines 25-30
NewExtractor ==
    /\ kpis = EmptyDict
    /\ not_found = <<>>
    /\ found = <<>>
    /\ x_calls = 0

\* DataLoader.__init__, lines 33-36
NewLoader ==
    /\ l_raw = NoGrid
    /\ l_df = NoGrid
    /\ l_years = <<>>
    /\ l_result = "none"
    /\ l_prev = NoLoad

\* no BalanceKPIExtractor yet
NoBalanceExtractor ==
    /\ b_df = <<>>
    /\ b_years = <<>>
    /\ b_kpis = EmptyDict
    /\ b_raised = FALSE
    /\ b_done = FALSE

\* no call of calculate_financial_ratios yet
NoRatios ==
    /\ ratios = EmptyDict
    /\ r_done = FALSE

\* no arguments chosen for calculate_financial_ratios
NoRatioInputs ==
    /\ r_balance = EmptyDict
    /\ r_pyg = EmptyDict
    /\ r_years = <<>>

\* no call of extract_detailed_data yet
NoDetail ==
    /\ servicios = EmptyDict
    /\ aprovisionamientos = EmptyDict
    /\ personal = EmptyDict
    /\ otros_gastos = EmptyDict
    /\ d_done = FALSE

\* main(), lines 176-186: the locals at the start of a run
NewRun ==
    /\ a_has_balance = FALSE
    /\ a_pyg_file = NoFile
    /\ a_balance_file = NoBalanceFile
    /\ a_section = ""
    /\ a_balance_kpis = None_
    /\ a_activo_detalle = None_
    /\ a_pasivo_detalle = None_
    /\ a_log = <<>>

\* the application is not running
NoApp ==
    /\ a_pc = "off"
    /\ a_runs = 0
    /\ a_session = FALSE
    /\ a_prev = NoPrev
    /\ NewRun

\* extract_all()
ExtractAll ==
    /\ x_calls < MaxCalls
    /\ LET st == extract_all([kpis |-> kpis, found |-> found, not_found |-> not_found],
                             x_df, x_years)
       IN  /\ kpis' = st.kpis
           /\ found' = st.found
           /\ not_found' = st.not_found
    /\ x_calls' = x_calls + 1
    /\ UNCHANGED <<bvars, x_df, x_years, lvars, rvars, dvars, avars>>

\* extract_detailed_data()
ExtractDetailedData ==
    /\ ~d_done
    /\ LET d == extract_detailed_data(x_df, x_years)
       IN  /\ servicios' = d.servicios
           /\ aprovisionamientos' = d.aprovisionamientos
           /\ personal' = d.personal
           /\ otros_gastos' = d.otros_gastos
    /\ d_done' = TRUE
    /\ UNCHANGED <<bvars, xvars, lvars, rvars, avars>>

\* load(file) on a new DataLoader, as app.py calls it
Load(file) ==
    /\ l_result = "none"
    /\ LET st == load(file, [raw |-> l_raw, df |-> l_df, years |-> l_years,
                             result |-> l_result])
       IN  /\ l_raw' = st.raw
           /\ l_df' = st.df
           /\ l_years' = st.years
           /\ l_result' = st.result
    /\ UNCHANGED <<bvars, l_prev, xvars, rvars, dvars, avars>>

\* load(file) on a DataLoader that has loaded a document: df and years are
\* what the earlier load() left
LoadAgain(file) ==
    /\ l_result = "ok"
    /\ ~l_prev.some
    /\ LET st == load(file, [raw |-> l_raw, df |-> l_df, years |-> l_years,
                             result |-> l_result])
       IN  /\ l_raw' = st.raw
           /\ l_df' = st.df
           /\ l_years' = st.years
           /\ l_result' = st.result
    /\ l_prev' = [some |-> TRUE, df |-> l_df, years |-> l_years]
    /\ UNCHANGED <<bvars, xvars, rvars, dvars, avars>>

\* balance_kpis = balance_extractor.extract_all()
BalanceExtractAll ==
    /\ ~b_done
    /\ b_kpis' = balance_extract_all(b_df, b_years).kpis
    /\ b_raised' = balance_extract_all(b_df, b_years).raised
    /\ b_done' = TRUE
    /\ UNCHANGED <<b_df, b_years, xvars, lvars, rvars, dvars, avars>>

\* ratios = calculate_financial_ratios(balance_kpis, pyg_kpis, years)
CalculateRatios ==
    /\ ~r_done
    /\ ratios' = calculate_financial_ratios(r_balance, r_pyg, r_years)
    /\ r_done' = TRUE
    /\ UNCHANGED <<bvars, r_balance, r_pyg, r_years, xvars, lvars, dvars, avars>>

\* one KPIExtractor instance over a grid and a years list
InitExtractor ==
    /\ x_df \in Grids
    /\ x_years \in YearLists
    /\ NewExtractor
    /\ NewLoader
    /\ NoRatioInputs
    /\ NoRatios
    /\ NoDetail
    /\ NoBalanceExtractor
    /\ NoApp

NextExtractor == ExtractAll

SpecExtractor == InitExtractor /\ [][NextExtractor]_vars

\* one KPIExtractor instance whose detail maps are extracted
InitDetail ==
    /\ x_df \in DetailGrids
    /\ x_years \in YearLists
    /\ NewExtractor
    /\ NewLoader
    /\ NoRatioInputs
    /\ NoRatios
    /\ NoDetail
    /\ NoBalanceExtractor
    /\ NoApp

NextDetail == ExtractDetailedData

SpecDetail == InitDetail /\ [][NextDetail]_vars

\* one DataLoader instance
InitLoader ==
    /\ x_df = [cols |-> <<>>, rows |-> <<>>]
    /\ x_years = <<>>
    /\ NewExtractor
    /\ NewLoader
    /\ NoRatioInputs
    /\ NoRatios
    /\ NoDetail
    /\ NoBalanceExtractor
    /\ NoApp

NextLoader == \E file \in Files : Load(file)

SpecLoader == InitLoader /\ [][NextLoader]_vars

\* one DataLoader instance that loads a file and then, when that succeeded,
\* a second one
NextReload ==
    \/ \E file \in Files : Load(file)
    \/ \E file \in ReloadFiles : LoadAgain(file)

SpecReload == InitLoader /\ [][NextReload]_vars

\* one BalanceKPIExtractor instance over a balance grid and the P&L years
InitBalance ==
    /\ x_df = [cols |-> <<>>, rows |-> <<>>]
    /\ x_years = <<>>
    /\ NewExtractor
    /\ NewLoader
    /\ NoRatioInputs
    /\ NoRatios
    /\ NoDetail
    /\ NoApp
    /\ b_df \in BalanceGrids
    /\ b_years \in BalanceYearLists
    /\ b_kpis = EmptyDict
    /\ b_raised = FALSE
    /\ b_done = FALSE

NextBalance == BalanceExtractAll

SpecBalance == InitBalance /\ [][NextBalance]_vars

\* one call of calculate_financial_ratios
InitRatios ==
    /\ x_df = [cols |-> <<>>, rows |-> <<>>]
    /\ x_years = <<>>
    /\ NewExtractor
    /\ NewLoader
    /\ \E m \in KpiMaps(BalanceInputs \cup PygInputs) :
          /\ r_balance = [name \in (DOMAIN m) \cap BalanceInputs |-> m[name]]
          /\ r_pyg = [name \in (DOMAIN m) \cap PygInputs |-> m[name]]
    /\ r_years \in RatioYearLists
    /\ NoRatios
    /\ NoDetail
    /\ NoBalanceExtractor
    /\ NoApp

NextRatios == CalculateRatios

SpecRatios == InitRatios /\ [][NextRatios]_vars

\* main(), lines 188-205: the sidebar is rendered with the has_balance of
\* the session, then has_balance follows the presence of the balance file;
\* without a P&L file the welcome screen is shown and the run ends
RenderSidebar(pyg_file, balance_file, section) ==
    /\ a_pc = "start"
    /\ section \in Range(SectionsOffered(a_session))
    /\ a_pyg_file' = pyg_file
    /\ a_balance_file' = balance_file
    /\ a_section' = section
    /\ a_session' = (balance_file # NoBalanceFile)
    /\ a_has_balance' = (balance_file # NoBalanceFile)
    /\ IF pyg_file = NoFile
       THEN a_log' = Append(a_log, ShowWelcome) /\ a_pc' = "end"
       ELSE a_log' = a_log /\ a_pc' = "load_pyg"
    /\ UNCHANGED <<bvars, xvars, lvars, rvars, dvars, a_runs, a_balance_kpis,
                   a_activo_detalle, a_pasivo_detalle, a_prev>>

\* main(), lines 207-236: a new DataLoader loads the P&L file
LoadPyg ==
    /\ a_pc = "load_pyg"
    /\ LET st == load(a_pyg_file, [raw |-> NoGrid, df |-> NoGrid, years |-> <<>>,
                                   result |-> "none"])
       IN  /\ l_raw' = st.raw
           /\ l_df' = st.df
           /\ l_years' = st.years
           /\ l_result' = st.result
           /\ a_log' = a_log \o LoadError(st.result)
           /\ a_pc' = AfterLoad(st.result)
    /\ UNCHANGED <<bvars, l_prev, xvars, rvars, dvars, a_runs, a_session, a_has_balance,
                   a_pyg_file, a_balance_file, a_section, a_balance_kpis,
                   a_activo_detalle, a_pasivo_detalle, a_prev>>

\* main(), lines 238-258: a new KPIExtractor over the loaded grid and years
ExtractPyg ==
    /\ a_pc = "extract_pyg"
    /\ x_df' = GridView(l_df)
    /\ x_years' = YearNames(l_years)
    /\ LET st == extract_all(FreshExtractorState, GridView(l_df), YearNames(l_years))
       IN  /\ kpis' = st.kpis
           /\ found' = st.found
           /\ not_found' = st.not_found
           /\ a_log' = IF st.not_found # <<>> THEN Append(a_log, WarningMissing)
                       ELSE a_log
    /\ x_calls' = 1
    /\ LET d == extract_detailed_data(GridView(l_df), YearNames(l_years))
       IN  /\ servicios' = d.servicios
           /\ aprovisionamientos' = d.aprovisionamientos
           /\ personal' = d.personal
           /\ otros_gastos' = d.otros_gastos
    /\ d_done' = TRUE
    /\ a_pc' = "balance"
    /\ UNCHANGED <<bvars, lvars, rvars, a_runs, a_session, a_has_balance, a_pyg_file,
                   a_balance_file, a_section, a_balance_kpis, a_activo_detalle,
                   a_pasivo_detalle, a_prev>>

\* main(), lines 260-290, without a balance file
SkipBalance ==
    /\ a_pc = "balance"
    /\ a_balance_file = NoBalanceFile
    /\ a_pc' = "render"
    /\ UNCHANGED <<bvars, xvars, lvars, rvars, dvars, a_runs, a_session, a_has_balance,
                   a_pyg_file, a_balance_file, a_section, a_balance_kpis,
                   a_activo_detalle, a_pasivo_detalle, a_log, a_prev>>

\* main(), lines 260-290, with a balance file: the try block and its except
ProcessBalance ==
    /\ a_pc = "balance"
    /\ a_balance_file # NoBalanceFile
    /\ LET out == BalanceProcessing(a_balance_file, kpis, x_years)
       IN  /\ a_balance_kpis' = out.balance_kpis
           /\ a_activo_detalle' = out.activo
           /\ a_pasivo_detalle' = out.pasivo
           /\ ratios' = out.ratios.val
           /\ r_done' = out.ratios.some
           /\ IF out.ratios.some
              THEN /\ r_balance' = out.balance_kpis.val
                   /\ r_pyg' = kpis
                   /\ r_years' = x_years
              ELSE UNCHANGED <<r_balance, r_pyg, r_years>>
           /\ IF out.raised
              THEN /\ a_log' = Append(a_log, WarningBalance)
                   /\ UNCHANGED <<a_has_balance, a_session>>
              ELSE /\ a_log' = Append(a_log, InfoComplete)
                   /\ a_has_balance' = TRUE
                   /\ a_session' = TRUE
    /\ a_pc' = "render"
    /\ UNCHANGED <<bvars, xvars, lvars, dvars, a_runs, a_pyg_file, a_balance_file, a_section,
                   a_prev>>

\* main(), lines 292-319: the selected section is rendered
RenderSection ==
    /\ a_pc = "render"
    /\ a_log' = a_log \o SectionDisplay(a_section, a_has_balance, a_balance_kpis, r_done)
    /\ a_pc' = "end"
    /\ UNCHANGED <<bvars, xvars, lvars, rvars, dvars, a_runs, a_session, a_has_balance,
                   a_pyg_file, a_balance_file, a_section, a_balance_kpis,
                   a_activo_detalle, a_pasivo_detalle, a_prev>>

\* Streamlit runs main() again: the locals start anew, the session state
\* stays
Rerun ==
    /\ a_pc = "end"
    /\ a_runs < MaxRuns
    /\ a_runs' = a_runs + 1
    /\ a_pc' = "start"
    /\ a_prev' = IF x_calls > 0
                 THEN [some |-> TRUE, file |-> a_pyg_file, years |-> x_years,
                       kpis |-> kpis, not_found |-> not_found]
                 ELSE a_prev
    /\ x_df' = [cols |-> <<>>, rows |-> <<>>]
    /\ x_years' = <<>>
    /\ kpis' = EmptyDict /\ not_found' = <<>> /\ found' = <<>> /\ x_calls' = 0
    /\ l_raw' = NoGrid /\ l_df' = NoGrid /\ l_years' = <<>> /\ l_result' = "none"
    /\ l_prev' = NoLoad
    /\ UNCHANGED bvars
    /\ r_balance' = EmptyDict /\ r_pyg' = EmptyDict /\ r_years' = <<>>
    /\ ratios' = EmptyDict /\ r_done' = FALSE
    /\ servicios' = EmptyDict /\ aprovisionamientos' = EmptyDict
    /\ personal' = EmptyDict /\ otros_gastos' = EmptyDict /\ d_done' = FALSE
    /\ a_has_balance' = FALSE
    /\ a_pyg_file' = NoFile
    /\ a_balance_file' = NoBalanceFile
    /\ a_section' = ""
    /\ a_balance_kpis' = None_
    /\ a_activo_detalle' = None_
    /\ a_pasivo_detalle' = None_
    /\ a_log' = <<>>
    /\ UNCHANGED a_session

\* one browser session of the application
InitApp ==
    /\ x_df = [cols |-> <<>>, rows |-> <<>>]
    /\ x_years = <<>>
    /\ NewExtractor
    /\ NewLoader
    /\ NoRatioInputs
    /\ NoRatios
    /\ NoDetail
    /\ NoBalanceExtractor
    /\ a_pc = "start"
    /\ a_runs = 1
    /\ a_session = FALSE
    /\ a_prev = NoPrev
    /\ NewRun

NextApp ==
    \/ \E pyg_file \in {NoFile} \cup AppPygFiles,
          balance_file \in {NoBalanceFile} \cup AppBalanceFiles,
          section \in Range(PygSections \o BalanceSections) :
            RenderSidebar(pyg_file, balance_file, section)
    \/ LoadPyg
    \/ ExtractPyg
    \/ SkipBalance
    \/ ProcessBalance
    \/ RenderSection
    \/ Rerun

SpecApp == InitApp /\ [][NextApp]_vars

(***************************************************************************)
(* Properties of KPIExtractor (SpecExtractor)                              *)
(***************************************************************************)
\* row i of the grid matches concept c and no earlier row does
IsFirstMatch(c, i) ==
    /\ RowFound(x_df.rows[i], x_df.cols, x_years, c.patterns)
    /\ \A j \in 1..(i - 1) : ~RowFound(x_df.rows[j], x_df.cols, x_years, c.patterns)

NoMatch(c) ==
    \A i \in 1..Len(x_df.rows) : ~RowFound(x_df.rows[i], x_df.cols, x_years, c.patterns)

\* C1: for every concept and grid, the KPI entry is read from the first row,
\* in grid order, that matches the concept's patterns; a later matching row
\* never changes the stored values.
C1_FirstMatchingRowWins ==
    x_calls > 0 =>
        \A c \in Range(KPI_MAPPINGS) : \A i \in 1..Len(x_df.rows) :
            IsFirstMatch(c, i) =>
                /\ c.name \in DOMAIN kpis
                /\ \A y \in Range(x_years) :
                      kpis[c.name][y] =
                          IF y \in Range(x_df.cols)
                          THEN StoredValue(x_df.rows[i][y], c.sign) ELSE 0

\* two rows match the same concept with different year cells, and the entry
\* holds the first row's value
C1_Witness ==
    /\ x_calls > 0
    /\ "2024" \in Range(x_df.cols)
    /\ \E c \in Range(KPI_MAPPINGS) : \E i, j \in 1..Len(x_df.rows) :
          /\ i < j
          /\ IsFirstMatch(c, i)
          /\ RowFound(x_df.rows[j], x_df.cols, x_years, c.patterns)
          /\ StoredValue(x_df.rows[i]["2024"], c.sign)
                # StoredValue(x_df.rows[j]["2024"], c.sign)
          /\ kpis[c.name]["2024"] = StoredValue(x_df.rows[i]["2024"], c.sign)

\* C2: after extract_all(), a required concept that matches no row is absent
\* from the KPI map and present in the list of get_missing_kpis().
C2_RequiredMissingAbsent ==
    x_calls > 0 =>
        \A c \in Range(KPI_MAPPINGS) :
            (c.required /\ NoMatch(c)) =>
                /\ c.name \notin DOMAIN kpis
                /\ c.name \in Range(not_found)

\* ingresos has no row while another required concept was found
C2_Witness ==
    /\ x_calls > 0
    /\ NoMatch(Config("ingresos"))
    /\ "ingresos" \notin DOMAIN kpis
    /\ "ingresos" \in Range(not_found)
    /\ "aprovisionamientos" \in DOMAIN kpis

\* C3: after extract_all(), an optional concept that matches no row is in the
\* KPI map with its configured default for every year of the years list, and
\* is not in the missing list.
C3_OptionalMissingDefault ==
    x_calls > 0 =>
        \A c \in Range(KPI_MAPPINGS) :
            (~c.required /\ NoMatch(c)) =>
                /\ c.name \in DOMAIN kpis
                /\ DOMAIN kpis[c.name] = Range(x_years)
                /\ \A y \in Range(x_years) : kpis[c.name][y] = c.default
                /\ c.name \notin Range(not_found)

\* resultado_financiero has no row in a grid that has rows, two years listed
C3_Witness ==
    /\ x_calls > 0
    /\ Len(x_df.rows) > 0
    /\ Len(x_years) = 2
    /\ NoMatch(Config("resultado_financiero"))
    /\ "resultado_financiero" \in DOMAIN kpis
    /\ \A y \in Range(x_years) : kpis["resultado_financiero"][y] = 0

C6_AllYearsPresent ==
    x_calls > 0 =>
        /\ \A name \in DOMAIN kpis : DOMAIN kpis[name] = Range(x_years)
        /\ \A c \in Range(KPI_MAPPINGS) : \A i \in 1..Len(x_df.rows) :
              IsFirstMatch(c, i) =>
                  \A y \in Range(x_years) :
                      (y \notin Range(x_df.cols) \/ x_df.rows[i][y].k = "nan")
                          => (y \in DOMAIN kpis[c.name] /\ kpis[c.name][y] = 0)

\* the matched row has a NaN cell for 2024 and no column for 2023
C6_Witness ==
    /\ x_calls > 0
    /\ x_years = <<"2024", "2023">>
    /\ "2024" \in Range(x_df.cols)
    /\ \E i \in 1..Len(x_df.rows) :
          /\ IsFirstMatch(Config("ingresos"), i)
          /\ x_df.rows[i]["2024"] = NaN
          /\ kpis["ingresos"] = [y \in {"2024", "2023"} |-> 0]

(***************************************************************************)
\* a label of each required concept
LabelsOf(name) ==
    CASE name = "ingresos" -> <<"VENTAS", "NETAS">>
      [] name = "aprovisionamientos" -> <<"4.", "aprovisionamientos">>
      [] name = "gastos_personal" -> <<"gastos", "de", "personal">>
      [] name = "otros_gastos" -> <<"otros", "gastos", "de", "explotación">>
      [] name = "amortizacion" -> <<"amortización">>
      [] name = "ebitda" -> <<"ebitda">>
      [] OTHER -> <<"resultado", "neto">>

\* the rows that match the patterns of concept c and of no other concept
RowsOnlyFor(c) ==
    { row \in { [col \in Range(x_df.cols) |->
                    IF col = "Col1" THEN NaN
                    ELSE IF col = "Concepto" THEN Txt(LabelsOf(c.name))
                    ELSE v] : v \in {Num(-2)} } :
        \A d \in Range(KPI_MAPPINGS) :
            RowFound(row, x_df.cols, x_years, d.patterns) <=> d = c }

\* the grid with a row put after its first p rows
WithRow(df, row, p) ==
    [df EXCEPT !.rows = SubSeq(@, 1, p) \o <<row>> \o SubSeq(@, p + 1, Len(@))]

\* every concept but c has in st the entry and the missing mark it has in the
\* instance, and c has an entry in st
SameOthers(c, st) ==
    /\ c.name \in DOMAIN st.kpis
    /\ \A d \in Range(KPI_MAPPINGS) :
          d # c =>
              /\ d.name \in DOMAIN kpis <=> d.name \in DOMAIN st.kpis
              /\ d.name \in DOMAIN kpis => kpis[d.name] = st.kpis[d.name]
              /\ d.name \in Range(not_found) <=> d.name \in Range(st.not_found)

ExtractorState == [kpis |-> kpis, found |-> found, not_found |-> not_found]

\* the instance after its first extract_all()
AfterFirstCall ==
    extract_all([kpis |-> EmptyDict, found |-> <<>>, not_found |-> <<>>], x_df, x_years)

\* no name occurs twice in the sequence
NoDuplicates(s) == \A i, j \in 1..Len(s) : s[i] = s[j] => i = j

\* C27 as stated: after any number of extract_all() calls on one instance,
\* get_missing_kpis() and get_found_kpis() hold no name twice, are disjoint,
\* and are what they were after the first call, as the KPI map is.
C27_ListsIdempotent ==
    x_calls > 0 =>
        /\ NoDuplicates(get_missing_kpis(ExtractorState))
        /\ NoDuplicates(get_found_kpis(ExtractorState))
        /\ Range(get_missing_kpis(ExtractorState))
              \cap Range(get_found_kpis(ExtractorState)) = {}
        /\ get_missing_kpis(ExtractorState) = get_missing_kpis(AfterFirstCall)
        /\ get_found_kpis(ExtractorState) = get_found_kpis(AfterFirstCall)
        /\ kpis = AfterFirstCall.kpis

(* Properties of DataLoader (SpecLoader)                                   *)
(***************************************************************************)
\* load() was called with a file that read_excel parsed
Loaded == l_result # "none" /\ ~l_raw.none

\* neither a header nor a cell of the first HeadRows rows is a year token
NoYearToken(raw) ==
    /\ \A i \in 1..Len(raw.hdrs) : ~year_pattern(Strip(StrOf(raw.hdrs[i])))
    /\ \A i \in 1..Len(raw.hdrs) : \A r \in 1..raw.n :
          r <= HeadRows => ~year_pattern(Strip(StrOf(raw.data[i][r])))

\* a string of four decimal digits
IsFourDigits(s) == Len(s) = 4 /\ \A i \in 1..4 : IsDigit(s[i])

\* C5: after a successful load(), get_years() is a non-empty sequence of
\* 4-digit year strings without duplicates, in descending order, on each of
\* the three detection paths.
C5_YearsDescending ==
    l_result = "ok" =>
        /\ l_years # <<>>
        /\ \A i \in 1..Len(l_years) :
              /\ IsFourDigits(l_years[i])
              /\ NumberOf(l_years[i]) \in 1900..2099
        /\ \A i, j \in 1..Len(l_years) :
              i < j => NumberOf(l_years[i]) > NumberOf(l_years[j])

\* years found in the headers in ascending column order come out descending
C5_Witness ==
    /\ l_result = "ok"
    /\ Len(l_raw.hdrs) >= 2
    /\ l_raw.hdrs[1] = LNum(2023)
    /\ l_raw.hdrs[2] = LStr(<<" ", "2", "0", "2", "4">>)
    /\ l_years = <<S_2024, S_2023>>

\* a successful load whose years come from the first data rows
C5_WitnessRows ==
    /\ l_result = "ok"
    /\ HeaderYears(l_raw) = <<>>
    /\ RowYears(l_raw) # <<>>
    /\ l_years = <<S_2022>>

\* a successful load through the positional layout
C5_WitnessPositional ==
    /\ l_result = "ok"
    /\ NoYearToken(l_raw)
    /\ l_years = DefaultYears

\* C7: when neither the headers nor the first 5 data rows hold a year token
\* and the raw grid has fewer than 10 columns, load() raises ValidationError
\* and no grid is returned.
C7_NoYearsFewColumnsFails ==
    (Loaded /\ NoYearToken(l_raw) /\ Len(l_raw.hdrs) < 10) =>
        /\ l_result = "ValidationError"
        /\ l_df.none

\* nine columns, a year token only below the first 5 rows
C7_Witness ==
    /\ Loaded
    /\ NoYearToken(l_raw)
    /\ Len(l_raw.hdrs) = 9
    /\ l_raw.n = 6
    /\ \E i \in 1..9 : year_pattern(StrOf(l_raw.data[i][6]))
    /\ l_result = "ValidationError"

\* C8: when no year token is found and the raw grid has 10 or more columns
\* (10, 11, 12, ...), load() applies the positional layout instead of
\* failing: detection completes with get_years() = 2025, 2024, 2023, 2022.
C8_PositionalFromTenColumns ==
    (Loaded /\ NoYearToken(l_raw) /\ Len(l_raw.hdrs) >= 10) =>
        /\ l_result \in {"ok", "ValidationError"}
        /\ l_years = <<S_2025, S_2024, S_2023, S_2022>>

\* every cell of every year column of the grid is 0
AllYearCellsZero ==
    \A q \in YearCols(l_df, l_years) : \A r \in 1..l_df.n :
        l_df.data[q][r] = LNum(0)

\* C15: load() raises ValidationError whenever the grid has no rows or, after
\* numeric coercion, every cell of every year column is 0; a grid returned by
\* load() has at least one row and at least one nonzero year-column value.
C15_AllZeroRejected ==
    /\ (Loaded /\ ~l_df.none /\ (l_df.n = 0 \/ AllYearCellsZero)) =>
          l_result = "ValidationError"
    /\ l_result = "ok" =>
          /\ l_df.n >= 1
          /\ \E q \in YearCols(l_df, l_years) : \E r \in 1..l_df.n :
                /\ l_df.data[q][r].k = "num"
                /\ l_df.data[q][r].n # 0

\* a grid with rows and a year column whose cells are all text: coerced to 0
\* and rejected
C15_Witness ==
    /\ l_result = "ValidationError"
    /\ ~l_df.none
    /\ l_df.n >= 1
    /\ YearCols(l_df, l_years) # {}
    /\ AllYearCellsZero
    /\ \E i \in 1..Len(l_raw.hdrs) : \E r \in 1..l_raw.n : l_raw.data[i][r].k = "str"

\* C20 as stated: after any successful load() the grid has exactly the column
\* 'Concepto' and one column per detected year, on every detection path, the
\* positional layout included.
C20_OnlyLabelAndYears ==
    l_result = "ok" =>
        /\ Range(l_df.hdrs) = {S_Concepto} \cup Range(l_years)
        /\ Len(l_df.hdrs) = 1 + Len(l_years)

\* C20 amended: after a successful load() that detected year tokens, in the
\* headers or in the first rows, the grid has exactly the column 'Concepto'
\* and one column per detected year; after a successful load() through the
\* positional layout the grid keeps all ten columns under the positional
\* names.
C20_LabelAndYearsWhenDetected ==
    l_result = "ok" =>
        IF NoYearToken(l_raw)
        THEN l_df.hdrs = PositionalNames
        ELSE /\ Range(l_df.hdrs) = {S_Concepto} \cup Range(l_years)
             /\ Len(l_df.hdrs) = 1 + Len(l_years)
             /\ l_df.hdrs[1] = S_Concepto

\* a successful load of a grid with more columns than the label and the two
\* years its headers hold
C20_Witness ==
    /\ l_result = "ok"
    /\ Len(l_raw.hdrs) >= 9
    /\ Len(l_years) = 2
    /\ Len(l_df.hdrs) = 3

\* a successful load through the positional layout
C20_WitnessPositional ==
    /\ l_result = "ok"
    /\ NoYearToken(l_raw)
    /\ Len(l_df.hdrs) = 10

(***************************************************************************)
\* the cell is a number already, or a text that reads as one
ReadsAsNumber(c) ==
    \/ c.k = "num"
    \/ c.k = "str" /\ c.s # <<>> /\ \A i \in 1..Len(c.s) : IsDigit(c.s[i])

\* column q of the grid holds the cells of column i of the raw grid, with
\* every cell that is empty or does not read as a number replaced by 0
CoercedFrom(q, i) ==
    \A r \in 1..l_df.n :
        /\ l_raw.data[i][r].k = "num" => l_df.data[q][r] = l_raw.data[i][r]
        /\ ~ReadsAsNumber(l_raw.data[i][r]) => l_df.data[q][r] = LNum(0)

\* C21: after a successful load(), every year of get_years() is a column of
\* the grid, and every cell of every year column is a number: a cell that was
\* empty, text or otherwise unparseable is 0.
C21_YearColumnsNumeric ==
    l_result = "ok" =>
        /\ \A j \in 1..Len(l_years) : l_years[j] \in Range(l_df.hdrs)
        /\ \A q \in 1..Len(l_df.hdrs) :
              l_df.hdrs[q] \in Range(l_years) =>
                  /\ \A r \in 1..l_df.n : l_df.data[q][r].k = "num"
                  /\ \E i \in 1..Len(l_raw.hdrs) : CoercedFrom(q, i)

\* a successful load of a grid whose 2023 column holds the text "-" and whose
\* 2024 column holds numbers
C21_Witness ==
    /\ l_result = "ok"
    /\ l_years = <<S_2024, S_2023>>
    /\ \E i \in 1..Len(l_raw.hdrs) :
          /\ l_raw.hdrs[i] = LNum(2023)
          /\ l_raw.data[i][1] = LStr(<<"-">>)
    /\ \E q \in 1..Len(l_df.hdrs) :
          /\ l_df.hdrs[q] = S_2023
          /\ l_df.data[q][1] = LNum(0)

\* the positions of the columns in which a year token was detected
YearPositions(raw) == {YearColumns(raw)[j][1] : j \in 1..Len(YearColumns(raw))}

\* the non-year columns that qualify as text
TextColumns(raw) ==
    {i \in 1..Len(raw.hdrs) : i \notin YearPositions(raw) /\ IsTextColumn(raw, i)}

\* C25 as stated: the label column chosen by load() is never one of the
\* detected year columns: it is the first non-year column that qualifies as
\* text, or the default second (or only) column when none qualifies, and in
\* both cases the 'Concepto' column of the grid holds that column's cells and
\* not those of a year column.
C25_LabelColumnNotYear ==
    (l_result = "ok" /\ ~NoYearToken(l_raw)) =>
        /\ ConceptoCol(l_raw, YearColumns(l_raw)) \notin YearPositions(l_raw)
        /\ IF TextColumns(l_raw) # {}
           THEN \A i \in TextColumns(l_raw) : ConceptoCol(l_raw, YearColumns(l_raw)) <= i
           ELSE ConceptoCol(l_raw, YearColumns(l_raw)) = IF Len(l_raw.hdrs) > 1 THEN 2 ELSE 1
        /\ l_df.hdrs[1] = S_Concepto
        /\ l_df.data[1] = l_raw.data[ConceptoCol(l_raw, YearColumns(l_raw))]
        /\ \A i \in YearPositions(l_raw) : l_df.data[1] # l_raw.data[i]

(***************************************************************************)
(* Properties of a reused DataLoader (SpecReload)                          *)
(***************************************************************************)
\* the instance as the getters see it
LoaderState == [raw |-> l_raw, df |-> l_df, years |-> l_years, result |-> l_result]

\* C26 as stated: when load() raises on a DataLoader that had loaded a
\* document, get_dataframe() and get_years() afterwards do not return the
\* grid and the years of the earlier document.
C26_FailedLoadKeepsNothing ==
    (l_prev.some /\ l_result \in {"DataLoadError", "ValidationError", "ValueError"}) =>
        ~(/\ ~get_dataframe(LoaderState).raised
          /\ get_dataframe(LoaderState).df = l_prev.df
          /\ get_years(LoaderState) = l_prev.years)

(***************************************************************************)
(* Properties of BalanceKPIExtractor (SpecBalance)                         *)
(***************************************************************************)
\* marker k matches the joined label text of row i
MarkerMatches(k, i) ==
    /\ In(BALANCE_MARKERS[k].marker, b_df[i].lower)
    /\ BALANCE_MARKERS[k].unless = "" \/ ~In(BALANCE_MARKERS[k].unless, b_df[i].lower)

\* marker k is the first marker, in the order of the chain, that matches row i
IsFirstMarker(k, i) ==
    MarkerMatches(k, i) /\ \A j \in 1..(k - 1) : ~MarkerMatches(j, i)

\* the rows whose first matching marker is marker k
RowsOf(k) == {i \in 1..Len(b_df) : IsFirstMarker(k, i)}

\* the values of row i for the years asked for
ValuesOf(i) == [y \in Range(b_years) |-> b_df[i].vals[y]]

\* C24 as stated: each row is tested against the markers in a fixed order and
\* assigns at most one balance concept, the one of the first marker that
\* matches its joined label text: the concepts of the map are the concepts of
\* the first matching markers of the rows, each with the values of such a row.
C24_FirstMarkerPerRow ==
    (b_done /\ ~b_raised) =>
        /\ DOMAIN b_kpis
              = {BALANCE_MARKERS[k].name : k \in {j \in 1..Len(BALANCE_MARKERS) : RowsOf(j) # {}}}
        /\ \A k \in 1..Len(BALANCE_MARKERS) :
              BALANCE_MARKERS[k].name \in DOMAIN b_kpis =>
                  \E i \in RowsOf(k) : b_kpis[BALANCE_MARKERS[k].name] = ValuesOf(i)

\* concept k holds the values of the first / of the last of its rows
KeepsFirst(k) ==
    \A i \in RowsOf(k) :
        (\A j \in RowsOf(k) : i <= j) => b_kpis[BALANCE_MARKERS[k].name] = ValuesOf(i)

KeepsLast(k) ==
    \A i \in RowsOf(k) :
        (\A j \in RowsOf(k) : i >= j) => b_kpis[BALANCE_MARKERS[k].name] = ValuesOf(i)

\* the concepts that have a row and an entry
WithRows == {k \in 1..Len(BALANCE_MARKERS) :
                RowsOf(k) # {} /\ BALANCE_MARKERS[k].name \in DOMAIN b_kpis}

\* C30 as stated: when several rows match the marker of the same concept, the
\* rule for which row's values are kept is the same for every balance
\* concept: all keep the first matching row, or all keep the last.
C30_OneRuleForRepeatedRows ==
    (b_done /\ ~b_raised) =>
        \/ \A k \in WithRows : KeepsFirst(k)
        \/ \A k \in WithRows : KeepsLast(k)

(* Properties of extract_detailed_data (SpecDetail)                        *)
(***************************************************************************)
\* the label text of row i of the grid
ConceptoOf(i) == Concepto(x_df.rows[i], x_df.cols)

IsParentRow(i) == ReSearchI(DETAILED_MAPPINGS.servicios.parent_pattern, ConceptoOf(i))
IsStopRow(i)   == ReSearchI(DETAILED_MAPPINGS.servicios.stop_pattern, ConceptoOf(i))
IsItemRow(i)   == ReMatch(DETAILED_MAPPINGS.servicios.item_pattern, ConceptoOf(i))

\* the window is open at row i: a parent row lies above it with no stop row
\* in between
WindowOpen(i) ==
    \E j \in 1..(i - 1) :
        /\ IsParentRow(j)
        /\ \A k \in (j + 1)..(i - 1) : IsParentRow(k) \/ ~IsStopRow(k)

\* the rows the claim says are captured
CapturedRows ==
    {i \in 1..Len(x_df.rows) :
        IsItemRow(i) /\ ~IsParentRow(i) /\ ~IsStopRow(i) /\ WindowOpen(i)}

\* C16: in the servicios scan an item row is captured exactly when the
\* window is open at that row; the window starts closed, each parent row
\* opens it, each stop row closes it; parent and stop rows are never
\* captured, and an item row below the stop row is left out unless a later
\* parent row has reopened the window.  The map holds the captured rows under
\* their display names, the last row of a name winning.
C16_WindowScan ==
    d_done =>
        /\ DOMAIN servicios = {Nombre(ConceptoOf(i)) : i \in CapturedRows}
        /\ \A i \in CapturedRows :
              (\A j \in CapturedRows : j > i => Nombre(ConceptoOf(j)) # Nombre(ConceptoOf(i)))
                  => servicios[Nombre(ConceptoOf(i))]
                         = RawYearValues(x_df.rows[i], x_df.cols, x_years)

\* parent, item, stop, item: only the first item is captured
C16_Witness ==
    /\ d_done
    /\ Len(x_df.rows) = 4
    /\ IsParentRow(1) /\ IsItemRow(2) /\ IsStopRow(3) /\ IsItemRow(4)
    /\ Nombre(ConceptoOf(2)) # Nombre(ConceptoOf(4))
    /\ DOMAIN servicios = {Nombre(ConceptoOf(2))}

\* parent, stop, parent, item: the second parent row reopens the window
C16_WitnessReopened ==
    /\ d_done
    /\ Len(x_df.rows) = 4
    /\ IsParentRow(1) /\ IsStopRow(2) /\ IsParentRow(3) /\ IsItemRow(4)
    /\ DOMAIN servicios = {Nombre(ConceptoOf(4))}

\* the values of a detail map are numbers >= 0
NonNegativeMap(m) ==
    \A name \in DOMAIN m : \A y \in DOMAIN m[name] :
        m[name][y].k = "num" /\ m[name][y].n >= 0

\* C17 as stated: every value stored in every detail map (servicios,
\* aprovisionamientos, personal, otros_gastos) is non-negative; a negative
\* source cell is stored as its absolute value.
C17_DetailValuesNonNegative ==
    d_done =>
        /\ NonNegativeMap(servicios)
        /\ NonNegativeMap(aprovisionamientos)
        /\ NonNegativeMap(personal)
        /\ NonNegativeMap(otros_gastos)

(***************************************************************************)
\* pair k of the list is the first, in list order, whose pattern matches the
\* label of row i
IsFirstPair(categories, k, i) ==
    /\ ReSearchI(categories[k][1], ConceptoOf(i))
    /\ \A j \in 1..(k - 1) : ~ReSearchI(categories[j][1], ConceptoOf(i))

\* the fixed labels of a category list
FixedLabels(categories) == {categories[k][2] : k \in 1..Len(categories)}

\* the map m holds, under each fixed label, the values of the last row whose
\* first matching pair carries that label, and nothing else
FirstPairMap(m, categories) ==
    /\ DOMAIN m \subseteq FixedLabels(categories)
    /\ \A k \in 1..Len(categories) :
          /\ categories[k][2] \in DOMAIN m
                <=> \E i \in 1..Len(x_df.rows) : IsFirstPair(categories, k, i)
          /\ \A i \in 1..Len(x_df.rows) :
                (/\ IsFirstPair(categories, k, i)
                 /\ \A j \in (i + 1)..Len(x_df.rows) : ~IsFirstPair(categories, k, j))
                    => m[categories[k][2]]
                           = AbsYearValues(x_df.rows[i], x_df.cols, x_years)

\* C23: in the category-list detail extraction each row is assigned to at
\* most one fixed label, the label of the first pair in list order whose
\* pattern matches the row's label; the keys of the map are a subset of the
\* fixed labels, 3 for personal and 7 for otros_gastos.
C23_FirstPairWins ==
    d_done =>
        /\ FirstPairMap(personal, DETAILED_MAPPINGS.personal_detalle.categories)
        /\ FirstPairMap(otros_gastos, DETAILED_MAPPINGS.otros_gastos_detalle.categories)
        /\ Cardinality(FixedLabels(DETAILED_MAPPINGS.personal_detalle.categories)) = 3
        /\ Cardinality(FixedLabels(DETAILED_MAPPINGS.otros_gastos_detalle.categories)) = 7

\* a row whose label holds "642 SEGURIDAD SOCIAL" before "640 SUELDOS" goes to
\* the label of the first pair of the list, Sueldos y Salarios, and not to
\* Seguridad Social
C23_Witness ==
    /\ d_done
    /\ \E i \in 1..Len(x_df.rows) :
          /\ ReSearchI(DETAILED_MAPPINGS.personal_detalle.categories[1][1], ConceptoOf(i))
          /\ ReSearchI(DETAILED_MAPPINGS.personal_detalle.categories[2][1], ConceptoOf(i))
    /\ DOMAIN personal = {"Sueldos y Salarios"}
    /\ personal["Sueldos y Salarios"]["2024"] = Num(3)
    /\ DOMAIN otros_gastos = {"Reparaciones y Mantenimiento"}

(* Properties of _find_kpi against the described search string             *)
(***************************************************************************)
\* the search string the spec describes: the texts of the non-year cells of
\* the row, joined in column order
RECURSIVE JoinedFrom(_, _, _, _)
JoinedFrom(row, cols, years, i) ==
    IF i > Len(cols) THEN <<>>
    ELSE (IF cols[i] \in Range(years) THEN <<>> ELSE Str(row[cols[i]]))
             \o JoinedFrom(row, cols, years, i + 1)

\* C18 as stated: a row is taken as the match of a concept exactly when the
\* concatenation of all its non-year cell values matches one of the concept's
\* patterns, so a concept is found exactly when some row's joined label
\* matches; a label split over two text columns is matched.
C18_JoinedLabelMatches ==
    x_calls > 0 =>
        \A k \in 1..Len(KPI_MAPPINGS) :
            (KPI_MAPPINGS[k].name \in Range(found)) <=>
                \E i \in 1..Len(x_df.rows) :
                    match_pattern(JoinedFrom(x_df.rows[i], x_df.cols, x_years, 1),
                                  KPI_MAPPINGS[k].patterns)

(***************************************************************************)
(* Properties of calculate_financial_ratios (SpecRatios)                   *)
(***************************************************************************)
\* the ratio value is exactly 0
IsZero(q) == q.num = 0 /\ q.den # 0

\* the ratio value is the quotient a / b
IsQuotient(q, a, b) == q.den # 0 /\ b # 0 /\ q.num * b = a * q.den

\* C9: in every year in which pasivo_corriente is 0 (or the concept or the
\* year is missing), ratio_liquidez, ratio_acid_test and ratio_tesoreria are
\* exactly 0; no division by zero occurs.
C9_LiquidityZero ==
    r_done =>
        \A y \in Range(r_years) :
            Get(r_balance, "pasivo_corriente", y) = 0 =>
                /\ IsZero(ratios[y].ratio_liquidez)
                /\ IsZero(ratios[y].ratio_acid_test)
                /\ IsZero(ratios[y].ratio_tesoreria)

\* pasivo_corriente is present and 0 in 2024 while activo_corriente and
\* efectivo are not 0
C9_Witness ==
    /\ r_done
    /\ "pasivo_corriente" \in DOMAIN r_balance
    /\ Get(r_balance, "pasivo_corriente", "2024") = 0
    /\ "2024" \in DOMAIN r_balance["pasivo_corriente"]
    /\ Get(r_balance, "activo_corriente", "2024") = 1
    /\ Get(r_balance, "efectivo", "2024") = 1
    /\ IsZero(ratios["2024"].ratio_liquidez)
    /\ IsZero(ratios["2024"].ratio_tesoreria)

\* C10 as stated: ratio_solvencia is total_activo / (pasivo_corriente +
\* pasivo_no_corriente) whenever that sum is not 0, and exactly 0 when both
\* liabilities are 0.
C10_SolvenciaQuotient ==
    r_done =>
        \A y \in Range(r_years) :
            LET ta  == Get(r_balance, "total_activo", y)
                pc  == Get(r_balance, "pasivo_corriente", y)
                pnc == Get(r_balance, "pasivo_no_corriente", y)
            IN  /\ (pc = 0 /\ pnc = 0) => IsZero(ratios[y].ratio_solvencia)
                /\ pc + pnc # 0 => IsQuotient(ratios[y].ratio_solvencia, ta, pc + pnc)

\* C10 amended: ratio_solvencia is total_activo / (pasivo_corriente +
\* pasivo_no_corriente) when that sum is greater than 0, and exactly 0
\* otherwise, in particular when both liabilities are 0, whatever
\* total_activo is.
C10_SolvenciaGuarded ==
    r_done =>
        \A y \in Range(r_years) :
            LET ta  == Get(r_balance, "total_activo", y)
                pc  == Get(r_balance, "pasivo_corriente", y)
                pnc == Get(r_balance, "pasivo_no_corriente", y)
            IN  IF pc + pnc > 0
                THEN IsQuotient(ratios[y].ratio_solvencia, ta, pc + pnc)
                ELSE IsZero(ratios[y].ratio_solvencia)

\* both liabilities are 1 and total_activo is 1: the ratio is 1/2
C10_Witness ==
    /\ r_done
    /\ Get(r_balance, "total_activo", "2024") = 1
    /\ Get(r_balance, "pasivo_corriente", "2024") = 1
    /\ Get(r_balance, "pasivo_no_corriente", "2024") = 1
    /\ ratios["2024"].ratio_solvencia = Frac(1, 2)

\* both liabilities are 0 and total_activo is not: the ratio is 0
C10_WitnessZero ==
    /\ r_done
    /\ Get(r_balance, "total_activo", "2024") = 1
    /\ "pasivo_corriente" \in DOMAIN r_balance
    /\ "pasivo_no_corriente" \in DOMAIN r_balance
    /\ Get(r_balance, "pasivo_corriente", "2024") = 0
    /\ Get(r_balance, "pasivo_no_corriente", "2024") = 0
    /\ IsZero(ratios["2024"].ratio_solvencia)

\* the 13 ratio names of a year's entry
RatioNames ==
    {"ratio_liquidez", "ratio_acid_test", "ratio_tesoreria",
     "ratio_endeudamiento", "ratio_autonomia", "ratio_apalancamiento",
     "roe", "roa", "rotacion_activos", "margen_neto", "ratio_solvencia",
     "fondo_maniobra", "capital_circulante_ratio"}

\* the ratios that read balance line c
DependsOn(c) ==
    CASE c = "total_activo" ->
           {"ratio_endeudamiento", "ratio_autonomia", "roa", "rotacion_activos",
            "ratio_solvencia", "capital_circulante_ratio"}
      [] c = "activo_corriente" ->
           {"ratio_liquidez", "ratio_acid_test", "fondo_maniobra",
            "capital_circulante_ratio"}
      [] c = "pasivo_corriente" ->
           {"ratio_liquidez", "ratio_acid_test", "ratio_tesoreria",
            "ratio_endeudamiento", "ratio_apalancamiento", "ratio_solvencia",
            "fondo_maniobra", "capital_circulante_ratio"}
      [] c = "pasivo_no_corriente" ->
           {"ratio_endeudamiento", "ratio_apalancamiento", "ratio_solvencia"}
      [] c = "patrimonio_neto" ->
           {"ratio_autonomia", "ratio_apalancamiento", "roe"}
      [] c = "existencias" -> {"ratio_acid_test"}
      [] c = "efectivo" -> {"ratio_tesoreria"}
      [] OTHER -> {}

\* the ratios whose denominator is balance line c alone
DividedBy(c) ==
    CASE c = "pasivo_corriente" ->
           {"ratio_liquidez", "ratio_acid_test", "ratio_tesoreria"}
      [] c = "total_activo" ->
           {"ratio_endeudamiento", "ratio_autonomia", "roa", "rotacion_activos",
            "capital_circulante_ratio"}
      [] c = "patrimonio_neto" -> {"ratio_apalancamiento", "roe"}
      [] OTHER -> {}

\* the balance map with line c present, MaxAmount in every year
WithLine(c) ==
    [name \in DOMAIN r_balance \cup {c} |->
        IF name = c THEN [y \in Range(r_years) |-> MaxAmount]
        ELSE r_balance[name]]

\* C11: calculate_financial_ratios never raises (no division by zero) and
\* returns an entry with all 13 ratio names for every year of the list, for
\* any maps, empty or partial ones included; a balance line that is missing
\* makes the ratios divided by it 0 and leaves the ratios that do not read it
\* as they are with the line present.
C11_RatiosTotal ==
    r_done =>
        /\ DOMAIN ratios = Range(r_years)
        /\ \A y \in Range(r_years) :
              /\ DOMAIN ratios[y] = RatioNames
              /\ \A n \in RatioNames : ratios[y][n].den # 0
              /\ \A c \in BalanceInputs \ DOMAIN r_balance :
                    /\ \A n \in DividedBy(c) : IsZero(ratios[y][n])
                    /\ \A n \in RatioNames \ DependsOn(c) :
                          ratios[y][n] = YearRatios(WithLine(c), r_pyg, y)[n]

\* pasivo_corriente is missing while activo_corriente, total_activo and
\* ingresos are 1: the liquidity ratios are 0, the others are computed
C11_Witness ==
    /\ r_done
    /\ "pasivo_corriente" \notin DOMAIN r_balance
    /\ Get(r_balance, "activo_corriente", "2024") = 1
    /\ Get(r_balance, "total_activo", "2024") = 1
    /\ Get(r_pyg, "ingresos", "2024") = 1
    /\ IsZero(ratios["2024"].ratio_liquidez)
    /\ ratios["2024"].fondo_maniobra = Whole(1)
    /\ ratios["2024"].rotacion_activos = Frac(1, 1)
    /\ DOMAIN ratios["2023"] = RatioNames

\* both maps are empty: every ratio of every year is 0
C11_WitnessEmpty ==
    /\ r_done
    /\ r_balance = EmptyDict
    /\ r_pyg = EmptyDict
    /\ \A y \in Range(r_years) : \A n \in RatioNames : IsZero(ratios[y][n])

\* the ratios whose stated zero policy is "denominator is 0"
QuotientRatios ==
    RatioNames \ {"ratio_apalancamiento", "roe", "fondo_maniobra"}

\* the stated numerator of quotient ratio n in year y
Numerator(n, y) ==
    LET ta  == Get(r_balance, "total_activo", y)
        ac  == Get(r_balance, "activo_corriente", y)
        pc  == Get(r_balance, "pasivo_corriente", y)
        pnc == Get(r_balance, "pasivo_no_corriente", y)
        pn  == Get(r_balance, "patrimonio_neto", y)
        ex  == Get(r_balance, "existencias", y)
        ef  == Get(r_balance, "efectivo", y)
        rn  == Get(r_pyg, "resultado_neto", y)
        ing == Get(r_pyg, "ingresos", y)
    IN  CASE n = "ratio_liquidez" -> ac
          [] n = "ratio_acid_test" -> ac - ex
          [] n = "ratio_tesoreria" -> ef
          [] n = "ratio_endeudamiento" -> pc + pnc
          [] n = "ratio_autonomia" -> pn
          [] n = "roa" -> rn * 100
          [] n = "rotacion_activos" -> ing
          [] n = "margen_neto" -> rn * 100
          [] n = "ratio_solvencia" -> ta
          [] n = "capital_circulante_ratio" -> ac - pc

\* the stated denominator of quotient ratio n in year y
Denominator(n, y) ==
    CASE n \in {"ratio_liquidez", "ratio_acid_test", "ratio_tesoreria"} ->
           Get(r_balance, "pasivo_corriente", y)
      [] n \in {"ratio_endeudamiento", "ratio_autonomia", "roa",
                "rotacion_activos", "capital_circulante_ratio"} ->
           Get(r_balance, "total_activo", y)
      [] n = "margen_neto" -> Get(r_pyg, "ingresos", y)
      [] n = "ratio_solvencia" ->
           Get(r_balance, "pasivo_corriente", y)
               + Get(r_balance, "pasivo_no_corriente", y)

\* C19 as stated: each ratio whose zero policy is "denominator is 0" equals
\* its quotient in every year where the denominator differs from 0, negative
\* denominators included, and is 0 only when the denominator is exactly 0.
C19_QuotientUnlessZero ==
    r_done =>
        \A y \in Range(r_years) : \A n \in QuotientRatios :
            IF Denominator(n, y) # 0
            THEN IsQuotient(ratios[y][n], Numerator(n, y), Denominator(n, y))
            ELSE IsZero(ratios[y][n])

\* C19 amended: each of these ratios equals its quotient in every year where
\* its denominator is greater than 0, and is 0 in every year where the
\* denominator is 0 or negative.
C19_QuotientWhenPositive ==
    r_done =>
        \A y \in Range(r_years) : \A n \in QuotientRatios :
            IF Denominator(n, y) > 0
            THEN IsQuotient(ratios[y][n], Numerator(n, y), Denominator(n, y))
            ELSE IsZero(ratios[y][n])

\* one year with a positive denominator (total_activo 1, ingresos -1 gives
\* rotacion_activos -1) and a negative one (ingresos -1, resultado_neto 1
\* gives margen_neto 0)
C19_Witness ==
    /\ r_done
    /\ Get(r_balance, "total_activo", "2024") = 1
    /\ Get(r_pyg, "ingresos", "2024") = -1
    /\ Get(r_pyg, "resultado_neto", "2024") = 1
    /\ ratios["2024"].rotacion_activos = Frac(-1, 1)
    /\ ratios["2024"].roa = Frac(100, 1)
    /\ IsZero(ratios["2024"].margen_neto)

(***************************************************************************)
(* Properties of main (SpecApp)                                            *)
(***************************************************************************)
\* the balance processing of the current run raised
BalanceFailed == WarningBalance \in Range(a_log)

\* C12 as stated: when a step of the balance processing raises, the run goes
\* on with the P&L only: the P&L KPI map is unchanged, the selected P&L
\* section is rendered, has_balance is false, and no Balance or Ratios
\* section is rendered from balance outputs that were not produced.
C12_BalanceFailureIsPygOnly ==
    (a_pc = "end" /\ BalanceFailed) =>
        /\ kpis = extract_all(FreshExtractorState, x_df, x_years).kpis
        /\ a_section \in Range(PygSections) => RenderOf(a_section) \in Range(a_log)
        /\ a_has_balance = FALSE
        /\ ~a_balance_kpis.some => RenderBalance \notin Range(a_log)
        /\ ~r_done => RenderRatios \notin Range(a_log)

\* load() of the P&L file raised in the current run
LoadFailed == l_result \in {"DataLoadError", "ValidationError", "ValueError"}

\* C13: in a run where loading the P&L file raises, processing stops there:
\* no KPI or detail extraction, no balance loading, no ratio computation and
\* no section rendering follows; the only thing shown is the error, and a
\* load failure and a validation failure show different errors.
C13_LoadFailureStopsRun ==
    LoadFailed =>
        /\ a_pc = "end"
        /\ x_calls = 0 /\ kpis = EmptyDict /\ ~d_done
        /\ ~a_balance_kpis.some /\ ~a_activo_detalle.some /\ ~a_pasivo_detalle.some
        /\ ~r_done
        /\ a_log = LoadError(l_result)
        /\ Len(a_log) = 1
        /\ l_result = "DataLoadError" => a_log[1] = ErrorLoad
        /\ l_result = "ValidationError" => a_log[1] = ErrorValidation
        /\ ErrorLoad # ErrorValidation

\* a run with a P&L sheet without years and a balance file: the validation
\* error is the only thing shown
C13_Witness ==
    /\ l_result = "ValidationError"
    /\ a_balance_file # NoBalanceFile
    /\ a_pc = "end"
    /\ a_log = <<ErrorValidation>>

\* a run whose P&L file cannot be read
C13_WitnessLoadError ==
    /\ l_result = "DataLoadError"
    /\ a_pc = "end"
    /\ a_log = <<ErrorLoad>>

BalanceStepPassed ==
    /\ a_pc \in {"render", "end"}
    /\ x_calls > 0
    /\ a_balance_file.readable
    /\ a_balance_file.ncols = 10

\* C28 as stated: balance KPI extraction and ratio computation, run with the
\* years detected in the P&L file, succeed for every P&L year list, years
\* outside 2022-2025 included: each matched balance concept has a value for
\* each of those years and the ratio map has an entry for each of them.
C28_BalanceForAnyYears ==
    BalanceStepPassed =>
        /\ ~BalanceFailed
        /\ a_balance_kpis.some
        /\ \A name \in DOMAIN a_balance_kpis.val :
              DOMAIN a_balance_kpis.val[name] = Range(x_years)
        /\ r_done
        /\ DOMAIN ratios = Range(x_years)

\* a balance file is supplied in the current run
FileSupplied == a_balance_file # NoBalanceFile

C29_WitnessFirstRun ==
    /\ a_runs = 1
    /\ a_pc = "end"
    /\ FileSupplied
    /\ a_section \in Range(PygSections)
    /\ InfoComplete \in Range(a_log)

====
